---- MODULE Spec2Model ----
(***************************************************************************)
(* A model of jsql: schema inference from newline-delimited JSON, the DDL *)
(* emitter and parser, the loader and the dumper, over a relational store. *)
(*                                                                         *)
(* Text (DDL lines, JSON encodings, column and table names, string values) *)
(* is a sequence of one-character strings, so that the emitter, the        *)
(* line-oriented parser and the JSON encoder and decoder work on           *)
(* characters as the code does.  A decoded JSON value is a pair            *)
(* <<kind, payload>>; numbers are float64 values that happen to be         *)
(* integers.                                                               *)
(***************************************************************************)
EXTENDS Integers, Sequences, FiniteSets, TLC

(***************************************************************************)
(* Characters                                                              *)
(***************************************************************************)
Lower == <<"a","b","c","d","e","f","g","h","i","j","k","l","m",
           "n","o","p","q","r","s","t","u","v","w","x","y","z">>
Upper == <<"A","B","C","D","E","F","G","H","I","J","K","L","M",
           "N","O","P","Q","R","S","T","U","V","W","X","Y","Z">>
Digits10 == <<"0","1","2","3","4","5","6","7","8","9">>

\* The characters of the model in byte order (sort.Strings compares bytes).
Ascii == <<" ", "\"", "(", ")", ",", "-", ".">> \o Digits10 \o <<":", ";">>
         \o Upper \o <<"[", "\\", "]", "_">> \o Lower \o <<"{", "}">>

Range(s) == {s[i] : i \in DOMAIN s}
Ord(c) == CHOOSE i \in DOMAIN Ascii : Ascii[i] = c
IsSpace(c) == c = " "
IsDigit(c) == c \in Range(Digits10)
IsWord(c) == c \in Range(Lower) \cup Range(Upper) \cup Range(Digits10) \cup {"_"}
ToUpperChar(c) ==
  IF c \in Range(Lower) THEN Upper[CHOOSE i \in DOMAIN Lower : Lower[i] = c] ELSE c
ToUpper(s) == [i \in DOMAIN s |-> ToUpperChar(s[i])]

\* Byte-wise lexicographic order on texts.
RECURSIVE LexLess(_, _)
LexLess(a, b) ==
  IF b = <<>> THEN FALSE
  ELSE IF a = <<>> THEN TRUE
  ELSE IF a[1] # b[1] THEN Ord(a[1]) < Ord(b[1])
  ELSE LexLess(Tail(a), Tail(b))

\* sort.Strings over a set of texts.
RECURSIVE SortStrings(_)
SortStrings(S) ==
  IF S = {} THEN <<>>
  ELSE LET m == CHOOSE x \in S : \A y \in S : y = x \/ LexLess(x, y)
       IN <<m>> \o SortStrings(S \ {m})

HasPrefix(s, p) == Len(s) >= Len(p) /\ SubSeq(s, 1, Len(p)) = p
HasSuffix(s, p) == Len(s) >= Len(p) /\ SubSeq(s, Len(s) - Len(p) + 1, Len(s)) = p
TrimSuffix(s, p) == IF HasSuffix(s, p) THEN SubSeq(s, 1, Len(s) - Len(p)) ELSE s
Contains(s, p) == \E i \in 1..(Len(s) - Len(p) + 1) : SubSeq(s, i, i + Len(p) - 1) = p
Drop(s, n) == SubSeq(s, n + 1, Len(s))

RECURSIVE TrimLeft(_)
TrimLeft(s) == IF s # <<>> /\ IsSpace(s[1]) THEN TrimLeft(Tail(s)) ELSE s
RECURSIVE TrimRight(_)
TrimRight(s) ==
  IF s # <<>> /\ IsSpace(s[Len(s)]) THEN TrimRight(SubSeq(s, 1, Len(s) - 1)) ELSE s
TrimSpace(s) == TrimRight(TrimLeft(s))

\* Length of the longest prefix of s whose characters all satisfy the class.
RECURSIVE WordRun(_)
WordRun(s) == IF s # <<>> /\ IsWord(s[1]) THEN 1 + WordRun(Tail(s)) ELSE 0
RECURSIVE SpaceRun(_)
SpaceRun(s) == IF s # <<>> /\ IsSpace(s[1]) THEN 1 + SpaceRun(Tail(s)) ELSE 0

(***************************************************************************)
(* Decoded JSON values (Go: nil, bool, float64, string, []interface{},     *)
(* map[string]interface{}).                                                *)
(***************************************************************************)
Null == <<"null", 0>>
JBool(b) == <<"bool", b>>
JNum(n) == <<"num", n>>
JStr(s) == <<"str", s>>
JArr(a) == <<"arr", a>>
JObj(o) == <<"obj", o>>
EmptyMap == [x \in {} |-> Null]

Kind(x) == x[1]
Val(x) == x[2]
IsObj(x) == Kind(x) = "obj"
IsArr(x) == Kind(x) = "arr"
\* obj[key] on a Go map: the zero value nil when the key is absent.
Get(o, key) == IF key \in DOMAIN o THEN o[key] ELSE Null

(***************************************************************************)
(* json.Marshal                                                            *)
(***************************************************************************)
RECURSIVE NatText(_)
NatText(n) == IF n < 10 THEN <<Digits10[n + 1]>>
              ELSE NatText(n \div 10) \o <<Digits10[(n % 10) + 1]>>
NumText(n) == IF n < 0 THEN <<"-">> \o NatText(0 - n) ELSE NatText(n)

RECURSIVE EscapeString(_)
EscapeString(s) ==
  IF s = <<>> THEN <<>>
  ELSE (IF s[1] \in {"\"", "\\"} THEN <<"\\", s[1]>> ELSE <<s[1]>>)
       \o EscapeString(Tail(s))
QuoteString(s) == <<"\"">> \o EscapeString(s) \o <<"\"">>

RECURSIVE Marshal(_)
RECURSIVE MarshalElems(_)
RECURSIVE MarshalMembers(_, _)
Marshal(x) ==
  CASE Kind(x) = "null" -> <<"n","u","l","l">>
    [] Kind(x) = "bool" -> IF Val(x) THEN <<"t","r","u","e">> ELSE <<"f","a","l","s","e">>
    [] Kind(x) = "num"  -> NumText(Val(x))
    [] Kind(x) = "str"  -> QuoteString(Val(x))
    [] Kind(x) = "arr"  -> <<"[">> \o MarshalElems(Val(x)) \o <<"]">>
    [] Kind(x) = "obj"  -> <<"{">> \o MarshalMembers(Val(x), SortStrings(DOMAIN Val(x))) \o <<"}">>
MarshalElems(a) ==
  IF a = <<>> THEN <<>>
  ELSE Marshal(a[1]) \o (IF Len(a) > 1 THEN <<",">> ELSE <<>>) \o MarshalElems(Tail(a))
MarshalMembers(o, keys) ==
  IF keys = <<>> THEN <<>>
  ELSE QuoteString(keys[1]) \o <<":">> \o Marshal(o[keys[1]])
       \o (IF Len(keys) > 1 THEN <<",">> ELSE <<>>) \o MarshalMembers(o, Tail(keys))

(***************************************************************************)
(* json.Unmarshal into interface{}: a recursive-descent decoder.  Each     *)
(* parser takes the text and a position and returns [ok, v, i] with i the  *)
(* position after what it read.                                            *)
(***************************************************************************)
RECURSIVE SkipSpace(_, _)
SkipSpace(t, i) == IF i <= Len(t) /\ IsSpace(t[i]) THEN SkipSpace(t, i + 1) ELSE i

Bad == [ok |-> FALSE, v |-> Null, i |-> 0]
Good(x, i) == [ok |-> TRUE, v |-> x, i |-> i]
Lit(t, i, word, x) ==
  IF i + Len(word) - 1 <= Len(t) /\ SubSeq(t, i, i + Len(word) - 1) = word
  THEN Good(x, i + Len(word)) ELSE Bad

\* The text of a string literal from position i (after the opening quote).
RECURSIVE ParseStringBody(_, _, _)
ParseStringBody(t, i, acc) ==
  IF i > Len(t) THEN Bad
  ELSE IF t[i] = "\"" THEN Good(JStr(acc), i + 1)
  ELSE IF t[i] = "\\"
       THEN IF i + 1 <= Len(t) /\ t[i + 1] \in {"\"", "\\"}
            THEN ParseStringBody(t, i + 2, Append(acc, t[i + 1]))
            ELSE Bad
  ELSE ParseStringBody(t, i + 1, Append(acc, t[i]))

RECURSIVE ParseDigits(_, _, _)
ParseDigits(t, i, acc) ==
  IF i <= Len(t) /\ IsDigit(t[i])
  THEN ParseDigits(t, i + 1, acc * 10 + (CHOOSE d \in 0..9 : Digits10[d + 1] = t[i]))
  ELSE [n |-> acc, i |-> i]

ParseNumber(t, i) ==
  LET neg == t[i] = "-"
      j == IF neg THEN i + 1 ELSE i
      d == ParseDigits(t, j, 0)
  IN IF j > Len(t) \/ ~IsDigit(t[j]) THEN Bad
     \* a leading zero is followed by no further digit
     ELSE IF t[j] = "0" /\ d.i > j + 1 THEN Bad
     ELSE Good(JNum(IF neg THEN 0 - d.n ELSE d.n), d.i)

RECURSIVE ParseValue(_, _)
RECURSIVE ParseElems(_, _, _)
RECURSIVE ParseMembers(_, _, _)
ParseValue(t, i0) ==
  LET i == SkipSpace(t, i0) IN
  IF i > Len(t) THEN Bad
  ELSE CASE t[i] = "n" -> Lit(t, i, <<"n","u","l","l">>, Null)
         [] t[i] = "t" -> Lit(t, i, <<"t","r","u","e">>, JBool(TRUE))
         [] t[i] = "f" -> Lit(t, i, <<"f","a","l","s","e">>, JBool(FALSE))
         [] t[i] = "\"" -> ParseStringBody(t, i + 1, <<>>)
         [] t[i] = "[" ->
              LET j == SkipSpace(t, i + 1) IN
              IF j <= Len(t) /\ t[j] = "]" THEN Good(JArr(<<>>), j + 1)
              ELSE ParseElems(t, j, <<>>)
         [] t[i] = "{" ->
              LET j == SkipSpace(t, i + 1) IN
              IF j <= Len(t) /\ t[j] = "}" THEN Good(JObj(EmptyMap), j + 1)
              ELSE ParseMembers(t, j, EmptyMap)
         [] t[i] = "-" \/ IsDigit(t[i]) -> ParseNumber(t, i)
         [] OTHER -> Bad
ParseElems(t, i, acc) ==
  LET e == ParseValue(t, i)
      j == SkipSpace(t, e.i)
  IN IF ~e.ok \/ j > Len(t) THEN Bad
     ELSE IF t[j] = "]" THEN Good(JArr(Append(acc, e.v)), j + 1)
     ELSE IF t[j] = "," THEN ParseElems(t, j + 1, Append(acc, e.v))
     ELSE Bad
ParseMembers(t, i0, acc) ==
  LET i == SkipSpace(t, i0) IN
  IF i > Len(t) \/ t[i] # "\"" THEN Bad
  ELSE LET key == ParseStringBody(t, i + 1, <<>>)
           c == SkipSpace(t, key.i)
       IN IF ~key.ok \/ c > Len(t) \/ t[c] # ":" THEN Bad
          ELSE LET e == ParseValue(t, c + 1)
                   j == SkipSpace(t, e.i)
                   \* a repeated key keeps its last value
                   acc2 == [x \in DOMAIN acc \cup {Val(key.v)} |->
                              IF x = Val(key.v) THEN e.v ELSE acc[x]]
               IN IF ~e.ok \/ j > Len(t) THEN Bad
                  ELSE IF t[j] = "}" THEN Good(JObj(acc2), j + 1)
                  ELSE IF t[j] = "," THEN ParseMembers(t, j + 1, acc2)
                  ELSE Bad

\* json.Unmarshal(text, &out) with out an interface{}: [ok, v].
Unmarshal(t) ==
  LET r == ParseValue(t, 1)
  IN IF r.ok /\ SkipSpace(t, r.i) > Len(t) THEN [ok |-> TRUE, v |-> r.v]
     ELSE [ok |-> FALSE, v |-> Null]

(***************************************************************************)
(* Schema model.  A table schema is [Name, Fields, FKs]: Fields maps a      *)
(* column to its type text, FKs maps a column to the referenced table.      *)
(***************************************************************************)
TypeInt  == <<"I","N","T","E","G","E","R">>
TypeReal == <<"R","E","A","L">>
TypeText == <<"T","E","X","T">>
TypeBool == <<"B","O","O","L","E","A","N">>
TypeJSON == <<"J","S","O","N">>

id_     == <<"i","d">>
value_  == <<"v","a","l","u","e">>
main_   == <<"m","a","i","n">>
SufId     == <<"_","i","d">>
SufSymbol == <<"_","s","y","m","b","o","l">>

NewTable(name) == [Name |-> name, Fields |-> EmptyMap, FKs |-> EmptyMap, Indexes |-> <<>>]
\* m[key] = val on a Go map.
Put(m, key, val) == [x \in DOMAIN m \cup {key} |-> IF x = key THEN val ELSE m[x]]

Reverse(s) == [i \in DOMAIN s |-> s[Len(s) + 1 - i]]
\* The order in which a `for k := range m` visits the keys of m.  Go leaves
\* it unspecified; prio lists the keys met first, the others follow sorted.
MapRange(m, prio) ==
  SelectSeq(prio, LAMBDA x : x \in DOMAIN m)
    \o SortStrings(DOMAIN m \ Range(prio))

(***************************************************************************)
(* resolveTableOrder                                                       *)
(***************************************************************************)
\* visit(tbl): st is [visited, order, crash].  crash = "nil" when tables[tbl]
\* is a nil pointer (tbl is not in the mapping) and its FKs are read;
\* crash = "overflow" when the recursion is deeper than the number of
\* tables, that is when a table is entered again below itself and the
\* recursion never returns.
RECURSIVE visit(_, _, _, _, _)
RECURSIVE visitEach(_, _, _, _, _)
visit(tables, prio, tbl, st, depth) ==
  IF st.crash # "" \/ tbl \in st.visited THEN st
  ELSE IF tbl \notin DOMAIN tables THEN [st EXCEPT !.crash = "nil"]
  ELSE IF depth > Cardinality(DOMAIN tables) THEN [st EXCEPT !.crash = "overflow"]
  ELSE LET fks == tables[tbl].FKs
           targets == [i \in DOMAIN MapRange(fks, prio) |-> fks[MapRange(fks, prio)[i]]]
           after == visitEach(tables, prio, targets, st, depth + 1)
       IN IF after.crash # "" THEN after
          ELSE [after EXCEPT !.visited = @ \cup {tbl}, !.order = Append(@, tbl)]
visitEach(tables, prio, names, st, depth) ==
  IF names = <<>> THEN st
  ELSE visitEach(tables, prio, Tail(names), visit(tables, prio, names[1], st, depth), depth)

\* The sorted table names alone, no foreign key followed.
sortedTableOrder(tables, prio) ==
  [order |-> SortStrings(DOMAIN tables), crash |-> ""]

\* [order, crash]: the returned sequence, or how the call ended instead.
resolveTableOrder(tables, prio) ==
  LET st == visitEach(tables, prio, SortStrings(DOMAIN tables),
                      [visited |-> {}, order |-> <<>>, crash |-> ""], 1)
  IN [order |-> st.order, crash |-> st.crash]

(***************************************************************************)
(* ParseDDL                                                                *)
(***************************************************************************)
KwCreateTable == <<"C","R","E","A","T","E"," ","T","A","B","L","E"," ">>
KwReferences  == <<"R","E","F","E","R","E","N","C","E","S">>

\* reCreate, (?i)^CREATE TABLE (\w+): [ok, name].
MatchCreate(line) ==
  LET n == Len(KwCreateTable)
      rest == Drop(line, n)
  IN IF Len(line) > n /\ ToUpper(SubSeq(line, 1, n)) = KwCreateTable /\ WordRun(rest) >= 1
     THEN [ok |-> TRUE, name |-> SubSeq(rest, 1, WordRun(rest))]
     ELSE [ok |-> FALSE, name |-> <<>>]

\* reField, ^\s*(\w+)\s+(\w+)(.*)$: [ok, col, typ, rest].
MatchField(line) ==
  LET s0 == Drop(line, SpaceRun(line))
      w1 == WordRun(s0)
      s1 == Drop(s0, w1)
      sp == SpaceRun(s1)
      s2 == Drop(s1, sp)
      w2 == WordRun(s2)
  IN IF w1 >= 1 /\ sp >= 1 /\ w2 >= 1
     THEN [ok |-> TRUE, col |-> SubSeq(s0, 1, w1), typ |-> SubSeq(s2, 1, w2),
           rest |-> Drop(s2, w2)]
     ELSE [ok |-> FALSE, col |-> <<>>, typ |-> <<>>, rest |-> <<>>]

\* reFk, REFERENCES\s+(\w+), leftmost match in rest: [ok, name].
RefAt(rest, i) ==
  LET after == Drop(rest, i + Len(KwReferences) - 1)
      sp == SpaceRun(after)
      w == WordRun(Drop(after, sp))
  IN IF i + Len(KwReferences) - 1 <= Len(rest)
        /\ SubSeq(rest, i, i + Len(KwReferences) - 1) = KwReferences /\ sp >= 1 /\ w >= 1
     THEN [ok |-> TRUE, name |-> SubSeq(Drop(after, sp), 1, w)]
     ELSE [ok |-> FALSE, name |-> <<>>]
MatchRef(rest) ==
  LET hits == {i \in 1..Len(rest) : RefAt(rest, i).ok}
  IN IF hits = {} THEN [ok |-> FALSE, name |-> <<>>]
     ELSE RefAt(rest, CHOOSE i \in hits : \A j \in hits : i <= j)

\* Every line after the first CREATE TABLE taken as inside its block.
InBlockAlways(ps) == ps.curr # <<>>
\* curr != nil: a CREATE TABLE block is open.
InBlock(ps) == ps.open

\* One iteration of the loop over the lines: ps is [tables, open, curr].
ParseLine(ps, raw) ==
  LET line == TrimSpace(raw)
      c == MatchCreate(line)
      f == MatchField(line)
      r == MatchRef(f.rest)
  IN IF line = <<>> \/ HasPrefix(line, <<"-","-">>) THEN ps
     ELSE IF c.ok
          THEN [tables |-> Put(ps.tables, c.name, NewTable(c.name)),
                open |-> TRUE, curr |-> c.name]
     ELSE IF ~InBlock(ps) THEN ps
     ELSE IF HasPrefix(line, <<")",";">>) \/ line = <<")">>
          THEN [ps EXCEPT !.open = FALSE]
     ELSE IF f.ok
          THEN [ps EXCEPT
                  !.tables[ps.curr].Fields = Put(@, f.col, ToUpper(f.typ)),
                  !.tables[ps.curr].FKs =
                     IF Contains(f.rest, KwReferences) /\ r.ok
                     THEN Put(@, f.col, r.name) ELSE @]
     ELSE ps

\* The loop over the lines, in order.  fr is [ps, lines]; the sequence is
\* split in halves, and the state travels in a record, only to keep the
\* evaluation shallow.
RECURSIVE ParseLines(_)
ParseLines(fr) ==
  IF fr.lines = <<>> THEN fr.ps
  ELSE IF Len(fr.lines) = 1 THEN ParseLine(fr.ps, fr.lines[1])
  ELSE LET h == Len(fr.lines) \div 2
       IN ParseLines([ps |-> ParseLines([ps |-> fr.ps, lines |-> SubSeq(fr.lines, 1, h)]),
                      lines |-> SubSeq(fr.lines, h + 1, Len(fr.lines))])

\* [Tables, TableOrder, crash]: crash as in resolveTableOrder.
ParseDDL(ddl, prio) ==
  LET ps == ParseLines([ps |-> [tables |-> EmptyMap, open |-> FALSE, curr |-> <<>>],
                        lines |-> ddl])
      ord == resolveTableOrder(ps.tables, prio)
  IN [Tables |-> ps.tables, TableOrder |-> ord.order, crash |-> ord.crash]

(***************************************************************************)
(* Input lines.  A line of the input file is [kind, v]: "blank" (empty or  *)
(* only white space), "bad" (not JSON) or "json" with v its decoded value.  *)
(***************************************************************************)
BlankLine == [kind |-> "blank", v |-> Null]
BadLine   == [kind |-> "bad", v |-> Null]
JsonLine(x) == [kind |-> "json", v |-> x]

\* json.Unmarshal(line, &obj) with obj a map[string]interface{}: an object
\* decodes to its map, the literal null leaves the nil map and is no error,
\* any other value and any text that is not JSON is an error.  The nil map
\* reads as the empty map.
UnmarshalMap(line) ==
  IF line.kind = "json" /\ Kind(line.v) = "obj" THEN [ok |-> TRUE, m |-> Val(line.v)]
  ELSE IF line.kind = "json" /\ Kind(line.v) = "null" THEN [ok |-> TRUE, m |-> EmptyMap]
  ELSE [ok |-> FALSE, m |-> EmptyMap]

(***************************************************************************)
(* Schema inference                                                        *)
(***************************************************************************)
\* The set s[key] of a map of sets with val added (created when missing).
AddUnique(s, key, val) ==
  Put(s, key, (IF key \in DOMAIN s THEN s[key] ELSE {}) \cup {val})

\* The (key, value) pairs of the rows in the order the two loops meet them.
RECURSIVE RowPairs(_, _)
RowPairs(rows, prio) ==
  IF rows = <<>> THEN <<>>
  ELSE [i \in DOMAIN MapRange(rows[1], prio) |->
          <<MapRange(rows[1], prio)[i], rows[1][MapRange(rows[1], prio)[i]]>>]
       \o RowPairs(Tail(rows), prio)

\* acc is [st, ft]: st = [schema, su, ju] (the schema and the two pools of
\* unique values, shared by all calls), ft the call's local fieldTypes.
RECURSIVE analyzeObjectSymbol(_, _, _, _)
RECURSIVE analyzeFields(_, _, _, _)
RECURSIVE analyzeField(_, _, _, _, _, _)
analyzeObjectSymbol(tblName, rows, st, prio) ==
  LET st0 == IF tblName \in DOMAIN st.schema THEN st
             ELSE [st EXCEPT !.schema = Put(@, tblName, NewTable(tblName))]
      r == analyzeFields(tblName, rows,
             [pairs |-> RowPairs(rows, prio), acc |-> [st |-> st0, ft |-> EmptyMap]], prio)
      old == r.st.schema[tblName].Fields
      merged == [f \in DOMAIN old \cup DOMAIN r.ft |->
                   IF f \in DOMAIN r.ft THEN r.ft[f] ELSE old[f]]
  IN [r.st EXCEPT !.schema[tblName].Fields = Put(merged, id_, TypeInt)]
\* The body of the two loops for one field of one row.
analyzeField(tblName, rows, key, val, acc, prio) ==
  LET hit == SelectSeq(rows, LAMBDA row : IsObj(Get(row, key)))
      subrows == [i \in DOMAIN hit |-> Val(hit[i][key])]
      sub == analyzeObjectSymbol(key, subrows, acc.st, prio)
  IN CASE Kind(val) = "obj" ->
            [st |-> [sub EXCEPT !.schema[tblName].FKs = Put(@, key \o SufId, key)],
             ft |-> Put(acc.ft, key \o SufId, TypeInt)]
       [] Kind(val) = "arr" ->
            [st |-> [acc.st EXCEPT !.ju = AddUnique(@, key, Marshal(val))],
             ft |-> Put(acc.ft, key, TypeJSON)]
       [] Kind(val) = "str" ->
            [st |-> [acc.st EXCEPT !.su = AddUnique(@, key, Val(val))],
             ft |-> Put(acc.ft, key, TypeText)]
       [] Kind(val) = "num"  -> [acc EXCEPT !.ft = Put(@, key, TypeReal)]
       [] Kind(val) = "bool" -> [acc EXCEPT !.ft = Put(@, key, TypeBool)]
       [] OTHER          -> [acc EXCEPT !.ft = Put(@, key, TypeText)]
\* The loops over the rows and their fields, in order.  fr is [pairs, acc];
\* the sequence of pairs is split in halves, and the accumulator travels in
\* a record, only to keep the evaluation shallow.
analyzeFields(tblName, rows, fr, prio) ==
  IF fr.pairs = <<>> THEN fr.acc
  ELSE IF Len(fr.pairs) = 1
       THEN analyzeField(tblName, rows, fr.pairs[1][1], fr.pairs[1][2], fr.acc, prio)
  ELSE LET h == Len(fr.pairs) \div 2
       IN analyzeFields(tblName, rows,
            [pairs |-> SubSeq(fr.pairs, h + 1, Len(fr.pairs)),
             acc |-> analyzeFields(tblName, rows,
                       [pairs |-> SubSeq(fr.pairs, 1, h), acc |-> fr.acc], prio)],
            prio)

\* The first `sample` lines that decode into a map.
SampleRoots(lines, sample) ==
  LET n == IF Len(lines) < sample THEN Len(lines) ELSE sample
      hit == SelectSeq(SubSeq(lines, 1, n), LAMBDA l : UnmarshalMap(l).ok)
  IN [i \in DOMAIN hit |-> UnmarshalMap(hit[i]).m]

\* The decision with a threshold of numRows/10.
SymbolDecisionTenth(uniques, numRows) ==
  {f \in DOMAIN uniques : Cardinality(uniques[f]) < numRows \div 10}

\* The decision that redirects every field with a repeated value.
SymbolDecisionRepeated(uniques, numRows) ==
  {f \in DOMAIN uniques : Cardinality(uniques[f]) < numRows}

\* The decision with <= in place of <.
SymbolDecisionAtMost(uniques, numRows) ==
  {f \in DOMAIN uniques : Cardinality(uniques[f]) <= numRows \div 5}

\* The fields whose pool holds fewer than numRows/5 distinct values.
SymbolDecision(uniques, numRows) ==
  {f \in DOMAIN uniques : Cardinality(uniques[f]) < numRows \div 5}

KwPrimaryKey == <<" ","P","R","I","M","A","R","Y"," ","K","E","Y">>
Indent == <<" "," ">>
SymbolColumnText(f) ==
  Indent \o f \o SufSymbol \o <<" ">> \o TypeInt \o <<" ">> \o KwReferences
    \o <<" ">> \o f \o SufSymbol \o <<"(","i","d",")">>

\* One column line of a CREATE TABLE statement, without the separator.
ColumnText(ts, col, symF, symJ) ==
  IF col \in symF \/ col \in symJ THEN SymbolColumnText(col)
  ELSE Indent \o col \o <<" ">> \o ts.Fields[col]
       \o (IF col = id_ THEN KwPrimaryKey ELSE <<>>)
       \o (IF col \in DOMAIN ts.FKs
           THEN <<" ">> \o KwReferences \o <<" ">> \o ts.FKs[col] \o <<"(","i","d",")">>
           ELSE <<>>)

TableText(ts, symF, symJ) ==
  LET keys == SortStrings(DOMAIN ts.Fields)
  IN <<KwCreateTable \o ts.Name \o <<" ", "(">>>>
     \o [j \in DOMAIN keys |->
           ColumnText(ts, keys[j], symF, symJ) \o (IF j < Len(keys) THEN <<",">> ELSE <<>>)]
     \o <<<<")", ";">>, <<>>>>

SymbolTableText(f) ==
  << KwCreateTable \o f \o SufSymbol \o <<" ", "(">>,
     Indent \o id_ \o <<" ">> \o TypeInt \o KwPrimaryKey \o <<",">>,
     Indent \o value_ \o <<" ">> \o TypeText \o <<" ","U","N","I","Q","U","E">>,
     <<")", ";">>, <<>> >>

RECURSIVE Concat(_)
Concat(ss) == IF ss = <<>> THEN <<>> ELSE ss[1] \o Concat(Tail(ss))

\* The keys of a set-like map in range order.
SetRange(S, prio) == SelectSeq(prio, LAMBDA x : x \in S) \o SortStrings(S \ Range(prio))

\* AnalyzeJSON(path, sample): [ok, schema, symF, symJ, numRows, ddl, crash].
\* ok is FALSE when no line of the sample decodes ("No rows for analysis",
\* exit 2); crash is that of resolveTableOrder.
\* determineIndexes with the default options: an index on every foreign-key
\* column, on every column f_symbol that stands beside a column f, and on
\* the value column of every table of the schema named like a symbol table.
KwIdx == <<"i","d","x","_">>
IndexDef(name, table, col, unique) ==
  [Name |-> name, Table |-> table, Columns |-> <<col>>, Unique |-> unique]
FKIndexes(ts, prio) ==
  LET fks == SelectSeq(MapRange(ts.FKs, prio), LAMBDA f : f # id_)
  IN [i \in DOMAIN fks |->
        IndexDef(KwIdx \o ts.Name \o <<"_">> \o fks[i], ts.Name, fks[i], FALSE)]
SymbolIndexes(ts, prio) ==
  LET hit == SelectSeq(MapRange(ts.Fields, prio),
                       LAMBDA f : /\ (f \o SufSymbol) \in DOMAIN ts.Fields
                                  /\ (f \o SufSymbol) \notin DOMAIN ts.FKs)
  IN [i \in DOMAIN hit |->
        IndexDef(KwIdx \o ts.Name \o <<"_">> \o hit[i] \o SufSymbol, ts.Name,
                 hit[i] \o SufSymbol, FALSE)]
ValueIndexes(ts, symF, symJ) ==
  IF \E f \in symF \cup symJ : f \o SufSymbol = ts.Name
  THEN <<IndexDef(KwIdx \o ts.Name \o <<"_">> \o value_, ts.Name, value_, TRUE)>>
  ELSE <<>>
determineIndexes(schema, symF, symJ, prio) ==
  [t \in DOMAIN schema |->
     [schema[t] EXCEPT !.Indexes = @ \o FKIndexes(schema[t], prio)
                                     \o SymbolIndexes(schema[t], prio)
                                     \o ValueIndexes(schema[t], symF, symJ)]]

\* The statements written from the last table of the order to the first.
TablesTextReversed(schema, order, symF, symJ) ==
  Concat([i \in DOMAIN order |-> TableText(schema[Reverse(order)[i]], symF, symJ)])
TablesText(schema, order, symF, symJ) ==
  Concat([i \in DOMAIN order |-> TableText(schema[order[i]], symF, symJ)])
SymbolTablesText(symOrder) ==
  Concat([i \in DOMAIN symOrder |-> SymbolTableText(symOrder[i])])
KwCreate == <<"C","R","E","A","T","E"," ">>
KwUnique == <<"U","N","I","Q","U","E"," ">>
KwIndex == <<"I","N","D","E","X"," ">>
KwOn == <<" ","O","N"," ">>
IndexText(idx) ==
  KwCreate \o (IF idx.Unique THEN KwUnique ELSE <<>>) \o KwIndex \o idx.Name \o KwOn
    \o idx.Table \o <<" ","(">> \o idx.Columns[1] \o <<")",";">>
IndexesText(schema, order) ==
  Concat([i \in DOMAIN order |->
            [j \in DOMAIN schema[order[i]].Indexes |-> IndexText(schema[order[i]].Indexes[j])]
            \o (IF schema[order[i]].Indexes # <<>> THEN <<<<>>>> ELSE <<>>)])
\* The statements written once the tables are ordered.
emitSchema(schema, symF, symJ, numRows, ord, prio) ==
  [ok |-> ord.crash = "", schema |-> schema, symF |-> symF, symJ |-> symJ,
   numRows |-> numRows,
   ddl |-> IF ord.crash = ""
           THEN TablesText(schema, ord.order, symF, symJ)
                \o SymbolTablesText(SetRange(symF, prio) \o SetRange(symJ \ symF, prio))
                \o IndexesText(schema, ord.order)
           ELSE <<>>,
   crash |-> ord.crash]
indexed(schema, symF, symJ, numRows, prio) ==
  emitSchema(schema, symF, symJ, numRows, resolveTableOrder(schema, prio), prio)
\* The symbol decisions over the pools the walk has filled.
symbolsDecided(schema, symF, symJ, numRows, prio) ==
  indexed(determineIndexes(schema, symF, symJ, prio), symF, symJ, numRows, prio)
decideSymbols(st, numRows, prio) ==
  symbolsDecided(st.schema, SymbolDecision(st.su, numRows), SymbolDecision(st.ju, numRows),
                 numRows, prio)
analyzeRoots(roots, prio) ==
  IF roots = <<>>
  THEN [ok |-> FALSE, schema |-> EmptyMap, symF |-> {}, symJ |-> {}, numRows |-> 0,
        ddl |-> <<>>, crash |-> ""]
  ELSE decideSymbols(analyzeObjectSymbol(main_, roots,
                       [schema |-> EmptyMap, su |-> EmptyMap, ju |-> EmptyMap], prio),
                     Len(roots), prio)
AnalyzeJSON(lines, sample, prio) == analyzeRoots(SampleRoots(lines, sample), prio)

(***************************************************************************)
(* The relational store (SQLite behind database/sql and go-sqlite3), as    *)
(* far as the statements the program issues reach.  A store maps a table    *)
(* name to [cols, decl, rows]: the declared columns in order, the declared  *)
(* type of each column, and the rows in rowid order, each [id, vals].  A    *)
(* stored value is [k, v] with k one of "NULL", "int", "real", "text".      *)
(***************************************************************************)
SqlNull == <<"NULL", 0>>
SqlInt(n) == <<"int", n>>
SqlReal(n) == <<"real", n>>
SqlText(t) == <<"text", t>>

\* The declared type of a column line: what follows the column name up to
\* the first column constraint or the separator.
RECURSIVE UpTo(_, _)
UpTo(s, stops) ==
  IF s = <<>> \/ (\E p \in stops : HasPrefix(s, p)) THEN <<>>
  ELSE <<s[1]>> \o UpTo(Tail(s), stops)
DeclType(line) ==
  LET f == MatchField(line)
  IN TrimSpace(UpTo(f.typ \o f.rest,
       {KwPrimaryKey, <<" ">> \o KwReferences, <<" ","U","N","I","Q","U","E">>, <<",">>}))

\* Column affinity of a declared type.
Affinity(decl) ==
  LET d == ToUpper(decl) IN
  IF Contains(d, <<"I","N","T">>) THEN "INTEGER"
  ELSE IF Contains(d, <<"C","H","A","R">>) \/ Contains(d, <<"C","L","O","B">>)
          \/ Contains(d, <<"T","E","X","T">>) THEN "TEXT"
  ELSE IF d = <<>> \/ Contains(d, <<"B","L","O","B">>) THEN "BLOB"
  ELSE IF Contains(d, <<"R","E","A","L">>) \/ Contains(d, <<"F","L","O","A">>)
          \/ Contains(d, <<"D","O","U","B">>) THEN "REAL"
  ELSE "NUMERIC"

\* Whether a text is an integer literal, and its value.
IntLiteral(t) ==
  LET j == IF t # <<>> /\ t[1] = "-" THEN 2 ELSE 1
      d == ParseDigits(t, j, 0)
  IN [ok |-> j <= Len(t) /\ d.i = Len(t) + 1, n |-> IF j = 2 THEN 0 - d.n ELSE d.n]

\* The value a column of the given affinity stores for a bound value.
ApplyAffinity(aff, x) ==
  CASE aff = "TEXT" /\ Kind(x) = "int"  -> SqlText(NumText(Val(x)))
    [] aff = "TEXT" /\ Kind(x) = "real" -> SqlText(NumText(Val(x)) \o <<".", "0">>)
    [] aff \in {"INTEGER", "NUMERIC"} /\ Kind(x) = "real" -> SqlInt(Val(x))
    [] aff \in {"INTEGER", "NUMERIC"} /\ Kind(x) = "text" /\ IntLiteral(Val(x)).ok ->
         SqlInt(IntLiteral(Val(x)).n)
    [] aff = "REAL" /\ Kind(x) = "int" -> SqlReal(Val(x))
    [] aff = "REAL" /\ Kind(x) = "text" /\ IntLiteral(Val(x)).ok -> SqlReal(IntLiteral(Val(x)).n)
    [] OTHER -> x

\* The column lines of the last CREATE TABLE block for `name` in the DDL.
RECURSIVE BlockLines(_, _, _, _)
BlockLines(lines, name, inside, acc) ==
  IF lines = <<>> THEN acc
  ELSE LET line == TrimSpace(lines[1])
           c == MatchCreate(line)
       IN IF c.ok THEN BlockLines(Tail(lines), name, c.name = name,
                                  IF c.name = name THEN <<>> ELSE acc)
          ELSE IF inside /\ (HasPrefix(line, <<")">>))
               THEN BlockLines(Tail(lines), name, FALSE, acc)
          ELSE IF inside /\ MatchField(line).ok
               THEN BlockLines(Tail(lines), name, TRUE, Append(acc, line))
          ELSE BlockLines(Tail(lines), name, inside, acc)

CreatedNames(ddl) ==
  {MatchCreate(TrimSpace(ddl[i])).name : i \in {j \in DOMAIN ddl : MatchCreate(TrimSpace(ddl[j])).ok}}
CreateCount(ddl) ==
  Cardinality({j \in DOMAIN ddl : MatchCreate(TrimSpace(ddl[j])).ok})
\* A CREATE TABLE line is name and opening parenthesis, nothing else.
HeadersOk(ddl) ==
  \A j \in DOMAIN ddl :
     MatchCreate(TrimSpace(ddl[j])).ok =>
       ddl[j] = KwCreateTable \o MatchCreate(TrimSpace(ddl[j])).name \o <<" ","(">>

\* CREATE [UNIQUE ]INDEX name ON table (col);: [ok, name, table, col].
IsIndexLine(line) ==
  HasPrefix(line, KwCreate \o KwIndex) \/ HasPrefix(line, KwCreate \o KwUnique \o KwIndex)
indexTail(name, table, rest) ==
  [ok |-> /\ WordRun(rest) >= 1
          /\ Drop(rest, WordRun(rest)) = <<")",";">>,
   name |-> name, table |-> table, col |-> SubSeq(rest, 1, WordRun(rest))]
indexTable(name, rest) ==
  IF WordRun(rest) >= 1 /\ HasPrefix(Drop(rest, WordRun(rest)), <<" ","(">>)
  THEN indexTail(name, SubSeq(rest, 1, WordRun(rest)), Drop(rest, WordRun(rest) + 2))
  ELSE [ok |-> FALSE, name |-> name, table |-> <<>>, col |-> <<>>]
indexName(rest) ==
  IF WordRun(rest) >= 1 /\ HasPrefix(Drop(rest, WordRun(rest)), KwOn)
  THEN indexTable(SubSeq(rest, 1, WordRun(rest)), Drop(rest, WordRun(rest) + Len(KwOn)))
  ELSE [ok |-> FALSE, name |-> <<>>, table |-> <<>>, col |-> <<>>]
MatchIndex(line) ==
  IF HasPrefix(line, KwCreate \o KwIndex)
  THEN indexName(Drop(line, Len(KwCreate \o KwIndex)))
  ELSE indexName(Drop(line, Len(KwCreate \o KwUnique \o KwIndex)))
\* Every CREATE INDEX names a table and a column the script has created, and
\* no index name is used twice.
IndexesOk(ddl, tabs) ==
  LET at == {j \in DOMAIN ddl : IsIndexLine(ddl[j])}
  IN /\ \A j \in at : /\ MatchIndex(ddl[j]).ok
                      /\ MatchIndex(ddl[j]).table \in DOMAIN tabs
                      /\ MatchIndex(ddl[j]).col \in Range(tabs[MatchIndex(ddl[j]).table].cols)
     /\ \A j, k \in at : j # k => MatchIndex(ddl[j]).name # MatchIndex(ddl[k]).name

\* CreateDatabase: a fresh store holding the tables of the DDL, [ok, db].
\* The script fails when it creates a table twice, declares a column twice,
\* has a malformed statement, or indexes what it has not created.
ColumnsOf(ddl, n) ==
  [i \in DOMAIN BlockLines(ddl, n, FALSE, <<>>) |->
     MatchField(BlockLines(ddl, n, FALSE, <<>>)[i]).col]
DeclOf(ddl, n) ==
  [c \in Range(ColumnsOf(ddl, n)) |->
     DeclType(CHOOSE l \in Range(BlockLines(ddl, n, FALSE, <<>>)) : MatchField(l).col = c)]
created(ddl, tabs) ==
  IF /\ CreateCount(ddl) = Cardinality(DOMAIN tabs)
     /\ HeadersOk(ddl)
     /\ \A n \in DOMAIN tabs : Cardinality(Range(tabs[n].cols)) = Len(tabs[n].cols)
     /\ IndexesOk(ddl, tabs)
  THEN [ok |-> TRUE, db |-> tabs]
  ELSE [ok |-> FALSE, db |-> EmptyMap]
CreateDatabase(ddl) ==
  created(ddl, [n \in CreatedNames(ddl) |->
                  [cols |-> ColumnsOf(ddl, n), decl |-> DeclOf(ddl, n), rows |-> <<>>]])

\* The Go value bound to a statement parameter, as the store receives it.
Bind(x) ==
  CASE Kind(x) = "null" -> SqlNull
    [] Kind(x) = "bool" -> SqlInt(IF Val(x) THEN 1 ELSE 0)
    [] Kind(x) = "num"  -> SqlReal(Val(x))
    [] Kind(x) = "str"  -> SqlText(Val(x))

\* The Go value a scanned column yields, as a JSON value: an integer of a
\* column declared "boolean" comes back as a bool.
Scanned(x, decl) ==
  CASE Kind(x) = "int" /\ ToUpper(decl) = TypeBool -> JBool(Val(x) > 0)
    [] Kind(x) = "int"  -> JNum(Val(x))
    [] Kind(x) = "real" -> JNum(Val(x))
    [] Kind(x) = "text" -> JStr(Val(x))
    [] OTHER -> Null

\* INSERT INTO t (cols) VALUES (vals): [db, id, err].  It fails when the
\* table or a column does not exist, and when the store refuses the write
\* (fail names the table whose INSERT the store refuses).
StoreInsert(db, t, cols, vals, fail) ==
  IF t = fail \/ t \notin DOMAIN db \/ ~(Range(cols) \subseteq Range(db[t].cols))
  THEN [db |-> db, id |-> 0, err |-> TRUE]
  ELSE LET newid == Len(db[t].rows) + 1
           row == [id |-> newid,
                   vals |-> [c \in Range(db[t].cols) |->
                     IF c = id_ THEN SqlInt(newid)
                     ELSE IF c \in Range(cols)
                          THEN ApplyAffinity(Affinity(db[t].decl[c]),
                                 vals[CHOOSE i \in DOMAIN cols : cols[i] = c])
                          ELSE SqlNull]]
       IN [db |-> [db EXCEPT ![t].rows = Append(@, row)], id |-> newid, err |-> FALSE]

\* SELECT id FROM t, without the WHERE clause.
SelectIdAny(db, t, stored) == {r.id : r \in Range(db[t].rows)}

\* SELECT id FROM t WHERE value = ?: the ids of the matching rows.
SelectIdByValue(db, t, stored) ==
  {r.id : r \in {q \in Range(db[t].rows) : q.vals[value_] = SqlText(stored)}}

(***************************************************************************)
(* Symbol tables                                                           *)
(***************************************************************************)
NoFail == <<>>

\* getOrInsertSymbol(tx, symTable, val): [db, id, err].  sym is the name of
\* the symbol table in the store.
SymbolResult(db, ids) ==
  IF ids = {} THEN [db |-> db, id |-> 0, err |-> TRUE]
  ELSE [db |-> db, id |-> CHOOSE x \in ids : TRUE, err |-> FALSE]
\* After INSERT OR IGNORE INTO sym (value) VALUES (?): the second SELECT.
symbolInserted(db, sym, stored, ins) ==
  IF ins.err THEN [db |-> db, id |-> 0, err |-> TRUE]
  ELSE SymbolResult(ins.db, SelectIdByValue(ins.db, sym, stored))
\* After the first SELECT, which found the ids found.
symbolSelected(db, sym, stored, fail, found) ==
  IF found # {} THEN SymbolResult(db, found)
  ELSE symbolInserted(db, sym, stored,
         StoreInsert(db, sym, <<value_>>, <<SqlText(stored)>>, fail))
getOrInsertSymbol(db, sym, val, fail) ==
  IF val = Null THEN [db |-> db, id |-> 0, err |-> FALSE]
  ELSE IF ~(sym \in DOMAIN db /\ value_ \in Range(db[sym].cols))
  THEN [db |-> db, id |-> 0, err |-> TRUE]
  ELSE symbolSelected(db, sym, Marshal(val), fail, SelectIdByValue(db, sym, Marshal(val)))

\* getSymbolValue(db, symTable, id): [ok, v].
\* Scan into a string: a number comes back as its text.
ScanString(x) == IF Kind(x) = "text" THEN Val(x) ELSE NumText(Val(x))
symbolDecoded(val, u) == [ok |-> TRUE, v |-> IF u.ok THEN u.v ELSE JStr(val)]
\* The stored text returned as it is, never decoded.
symbolUndecoded(val) == [ok |-> TRUE, v |-> JStr(val)]
symbolScanned(val) == symbolDecoded(val, Unmarshal(val))
symbolRows(hit) ==
  IF hit = {} THEN [ok |-> FALSE, v |-> Null]
  ELSE symbolScanned(ScanString((CHOOSE r \in hit : TRUE).vals[value_]))
getSymbolValue(db, sym, symId) ==
  symbolRows(IF sym \in DOMAIN db /\ value_ \in Range(db[sym].cols)
             THEN {r \in Range(db[sym].rows) : r.id = symId /\ Kind(r.vals[value_]) # "NULL"}
             ELSE {})

(***************************************************************************)
(* Write path                                                              *)
(***************************************************************************)
\* InsertRow(tx, table, obj, dbs): [db, id, err, crash].  table is the name
\* under which the table schema is looked up in dbs.Tables; crash = "nil"
\* when that lookup gave a nil pointer and the function reads through it.
\* The loop over table.Fields carries fr = [fields, db, cols, vals, err, crash].
RECURSIVE InsertRow(_, _, _, _, _, _)
RECURSIVE insertFields(_, _, _, _, _, _)
\* cols = append(cols, field); vals = append(vals, x)
AddColumn(fr, db, x) ==
  [fr EXCEPT !.fields = Tail(@), !.db = db, !.cols = Append(@, fr.fields[1]),
             !.vals = Append(@, x)]
\* The loop is left with the error or the panic of a callee.
Failed(fr, r) ==
  [fr EXCEPT !.fields = Tail(@), !.db = r.db, !.err = r.err,
             !.crash = IF "crash" \in DOMAIN r THEN r.crash ELSE ""]
\* The returned id appended while the callee's writes are dropped.
InsertedUnwritten(fr, r) ==
  IF r.err \/ ("crash" \in DOMAIN r /\ r.crash # "") THEN Failed(fr, r)
  ELSE AddColumn(fr, fr.db, SqlInt(r.id))
Inserted(fr, r) ==
  IF r.err \/ ("crash" \in DOMAIN r /\ r.crash # "") THEN Failed(fr, r)
  ELSE AddColumn(fr, r.db, SqlInt(r.id))
\* A foreign key into a symbol table.
insertSymbolField(dbs, fail, fr, fk, symval) ==
  IF symval # Null /\ fk \notin DOMAIN dbs.Tables
  THEN [fr EXCEPT !.fields = Tail(@), !.crash = "nil"]
  ELSE Inserted(fr, getOrInsertSymbol(fr.db, fk, symval, fail))
\* A foreign key stored as NULL whatever the base field holds.
insertNestedNull(dbs, fail, prio, fr, fk, base) == AddColumn(fr, fr.db, SqlNull)
\* A foreign key into the table of a nested object.
insertNestedField(dbs, fail, prio, fr, fk, base) ==
  IF IsObj(base) THEN Inserted(fr, InsertRow(fr.db, fk, Val(base), dbs, fail, prio))
  ELSE AddColumn(fr, fr.db, SqlNull)
\* A column of the table itself.
insertPlainField(obj, fr, field) ==
  IF field \notin DOMAIN obj THEN AddColumn(fr, fr.db, SqlNull)
  ELSE IF Kind(obj[field]) \in {"arr", "obj"} THEN AddColumn(fr, fr.db, SqlText(Marshal(obj[field])))
  ELSE AddColumn(fr, fr.db, Bind(obj[field]))
insertFieldOf(ts, obj, dbs, fail, prio, fr, field) ==
  IF field \in DOMAIN ts.FKs /\ HasSuffix(field, SufSymbol)
  THEN insertSymbolField(dbs, fail, fr, ts.FKs[field], Get(obj, TrimSuffix(field, SufSymbol)))
  ELSE IF field \in DOMAIN ts.FKs /\ HasSuffix(field, SufId)
  THEN insertNestedField(dbs, fail, prio, fr, ts.FKs[field], Get(obj, TrimSuffix(field, SufId)))
  ELSE insertPlainField(obj, fr, field)
insertField(table, obj, dbs, fail, prio, fr) ==
  insertFieldOf(dbs.Tables[table], obj, dbs, fail, prio, fr, fr.fields[1])
insertFields(table, obj, dbs, fail, prio, fr) ==
  IF fr.fields = <<>> \/ fr.err \/ fr.crash # "" THEN fr
  ELSE insertFields(table, obj, dbs, fail, prio,
                    insertField(table, obj, dbs, fail, prio, fr))
\* After the INSERT of the row itself.
rowInserted(fr, ins) ==
  IF ins.err THEN [db |-> fr.db, id |-> 0, err |-> TRUE, crash |-> ""]
  ELSE [db |-> ins.db, id |-> ins.id, err |-> FALSE, crash |-> ""]
\* The INSERT executed whether or not a column was collected.
insertAlways(table, fail, fr) ==
  IF fr.crash # "" THEN [db |-> fr.db, id |-> 0, err |-> FALSE, crash |-> fr.crash]
  ELSE IF fr.err THEN [db |-> fr.db, id |-> 0, err |-> TRUE, crash |-> ""]
  ELSE rowInserted(fr, StoreInsert(fr.db, table, fr.cols, fr.vals, fail))
\* After the loop over table.Fields.
insertCollected(table, fail, fr) ==
  IF fr.crash # "" THEN [db |-> fr.db, id |-> 0, err |-> FALSE, crash |-> fr.crash]
  ELSE IF fr.err THEN [db |-> fr.db, id |-> 0, err |-> TRUE, crash |-> ""]
  ELSE IF fr.cols = <<>> THEN [db |-> fr.db, id |-> 0, err |-> FALSE, crash |-> ""]
  ELSE rowInserted(fr, StoreInsert(fr.db, table, fr.cols, fr.vals, fail))
\* The loop running over the fields of the record as well.
rangeRecord(ts, obj, prio) ==
  SelectSeq(MapRange(ts.Fields, prio), LAMBDA f : f # id_)
    \o SelectSeq(MapRange(obj, prio), LAMBDA f : f \notin DOMAIN ts.Fields)
\* for field := range table.Fields, id left out.
rangeFields(ts, obj, prio) ==
  SelectSeq(MapRange(ts.Fields, prio), LAMBDA f : f # id_)
InsertRow(tx, table, obj, dbs, fail, prio) ==
  IF table \notin DOMAIN dbs.Tables
  THEN [db |-> tx, id |-> 0, err |-> FALSE, crash |-> "nil"]
  ELSE insertCollected(table, fail,
         insertFields(table, obj, dbs, fail, prio,
           [fields |-> rangeFields(dbs.Tables[table], obj, prio),
            db |-> tx, cols |-> <<>>, vals |-> <<>>, err |-> FALSE, crash |-> ""]))

(***************************************************************************)
(* Read path                                                               *)
(***************************************************************************)
\* The integer a foreign-key or symbol column holds, as the type switch and
\* Sscanf("%d") read it: 0 when the value is no integer.
textInt64(r) == IF r.ok THEN r.n ELSE 0
AsInt64(x) ==
  CASE Kind(x) = "int" -> Val(x)
    [] Kind(x) = "text" -> textInt64(IntLiteral(Val(x)))
    [] OTHER -> 0

\* A TEXT or JSON column: text that starts with [ or { and decodes is
\* replaced by the decoded value.
sniffDecoded(text, u) == IF u.ok THEN u.v ELSE JStr(text)
\* The stored text kept as a string, never decoded.
rawText(text) == JStr(text)
SniffText(text) ==
  IF text # <<>> /\ text[1] \in {"[", "{"}
  THEN sniffDecoded(text, Unmarshal(text)) ELSE JStr(text)

\* dumpRowValueSet(db, dbs, table, columns, vals): [obj, crash]; row holds
\* the scanned values by column.  dumpRowByID: [ok, obj, crash].
\* The loop over the columns carries fr = [cols, obj, crash].
RECURSIVE dumpRowValueSet(_, _, _, _)
RECURSIVE dumpColumns(_, _, _, _, _)
RECURSIVE dumpRowByID(_, _, _, _)
Skip(fr) == [fr EXCEPT !.cols = Tail(@)]
SetField(fr, key, val) == [fr EXCEPT !.cols = Tail(@), !.obj = Put(@, key, val)]
\* A symbol column assigned whether or not getSymbolValue found a row.
dumpSymbolUnchecked(fr, col, s) == SetField(fr, TrimSuffix(col, SufSymbol), s.v)
\* A symbol column: the value of the row of the symbol table.
dumpSymbol(fr, col, s) ==
  IF s.ok THEN SetField(fr, TrimSuffix(col, SufSymbol), s.v) ELSE Skip(fr)
\* A foreign key whose row is missing ends the dump with the error.
dumpNestedOrFail(fr, col, sub) ==
  IF sub.crash # "" \/ ~sub.ok THEN [fr EXCEPT !.cols = Tail(@), !.crash = "error"]
  ELSE SetField(fr, TrimSuffix(col, SufId), JObj(sub.obj))
\* A foreign key: the object of the referenced row.
dumpNested(fr, col, sub) ==
  IF sub.crash # "" THEN [fr EXCEPT !.cols = Tail(@), !.crash = sub.crash]
  ELSE IF sub.ok /\ DOMAIN sub.obj # {}
  THEN SetField(fr, TrimSuffix(col, SufId), JObj(sub.obj))
  ELSE Skip(fr)
dumpPlain(fr, col, val, typ, decl) ==
  IF typ \in {TypeJSON, TypeText} /\ Kind(val) = "text"
  THEN SetField(fr, col, SniffText(Val(val)))
  ELSE SetField(fr, col, Scanned(val, decl))
dumpColumnOf(db, dbs, ts, decl, fr, col, val) ==
  IF Kind(val) = "NULL" \/ col = id_ THEN Skip(fr)
  ELSE IF col \in DOMAIN ts.FKs /\ HasSuffix(col, SufSymbol)
  THEN dumpSymbol(fr, col, getSymbolValue(db, ts.FKs[col], AsInt64(val)))
  ELSE IF col \in DOMAIN ts.FKs /\ HasSuffix(col, SufId)
  THEN IF AsInt64(val) = 0 THEN Skip(fr)
       ELSE dumpNested(fr, col, dumpRowByID(db, dbs, ts.FKs[col], AsInt64(val)))
  ELSE dumpPlain(fr, col, val, IF col \in DOMAIN ts.Fields THEN ts.Fields[col] ELSE <<>>,
                 decl[col])
dumpColumn(db, dbs, table, row, fr) ==
  dumpColumnOf(db, dbs, dbs.Tables[table], db[table].decl, fr, fr.cols[1],
               row.vals[fr.cols[1]])
dumpColumns(db, dbs, table, row, fr) ==
  IF fr.cols = <<>> \/ fr.crash # "" THEN fr
  ELSE dumpColumns(db, dbs, table, row, dumpColumn(db, dbs, table, row, fr))
dumpedRow(fr) == [obj |-> fr.obj, crash |-> fr.crash]
dumpRowValueSet(db, dbs, table, row) ==
  dumpedRow(dumpColumns(db, dbs, table, row,
                        [cols |-> db[table].cols, obj |-> EmptyMap, crash |-> ""]))
dumpedByID(d) == [ok |-> TRUE, obj |-> d.obj, crash |-> d.crash]
dumpRowsFound(db, dbs, table, hit) ==
  IF hit = {} THEN [ok |-> FALSE, obj |-> EmptyMap, crash |-> ""]
  ELSE dumpedByID(dumpRowValueSet(db, dbs, table, CHOOSE r \in hit : TRUE))
dumpRowByID(db, dbs, table, rowid) ==
  IF table \notin DOMAIN dbs.Tables
  THEN [ok |-> FALSE, obj |-> EmptyMap, crash |-> "nil"]
  ELSE dumpRowsFound(db, dbs, table,
         IF table \in DOMAIN db /\ id_ \in Range(db[table].cols)
         THEN {r \in Range(db[table].rows) : r.id = rowid} ELSE {})

(***************************************************************************)
(* Bounds and inputs                                                       *)
(***************************************************************************)
\* importCmd's default for --sample.
Sample == 20
\* Longest input of the specification Spec, in lines.
MaxLines == 2
\* SpecSample: an input is at most MaxBase different lines, each Rep times.
MaxBase == 2
Rep == 10
\* ... or RepShort times, for samples of fewer records.
RepShort == 3
\* The store refuses at most MaxFail INSERTs of a run, within the first
\* MaxFailLine lines.
MaxFail == 1
MaxFailLine == 2

name_ == <<"n","a","m","e">>
age_  == <<"a","g","e">>
meta_ == <<"m","e","t","a">>
city_ == <<"c","i","t","y">>
ids_  == <<"i","d","s">>
ok_   == <<"o","k">>
a_b_  == <<"a"," ","b">>
Al == JStr(<<"A","l">>)
Bo == JStr(<<"B","o">>)

Obj1(k1, v1) == JObj(k1 :> v1)
Obj2(k1, v1, k2, v2) == JObj((k1 :> v1) @@ (k2 :> v2))
Obj3(k1, v1, k2, v2, k3, v3) == JObj((k1 :> v1) @@ (k2 :> v2) @@ (k3 :> v3))

\* The lines of the inputs of Spec.
ShortLines ==
  { BlankLine, BadLine,
    JsonLine(Null),
    JsonLine(JArr(<<JNum(1)>>)),
    JsonLine(JObj(EmptyMap)),
    JsonLine(Obj3(name_, Al, age_, JNum(30), meta_, Obj1(city_, JStr(<<"W">>)))),
    JsonLine(Obj2(name_, Bo, age_, JNum(31))),
    JsonLine(Obj3(name_, Al, ids_, JArr(<<JNum(1), JNum(2)>>), ok_, JBool(TRUE))),
    JsonLine(Obj2(name_, Null, ids_, JArr(<<>>))),
    JsonLine(Obj1(ids_, JArr(<<Obj1(ok_, Null)>>))),
    JsonLine(Obj1(name_, JStr(<<"[","1","]">>))),
    JsonLine(Obj3(name_, JStr(<<"[","1","]">>), age_, JNum(31), meta_, Obj1(city_, JStr(<<"B">>)))),
    JsonLine(Obj1(meta_, JObj(EmptyMap))),
    JsonLine(Obj2(name_, Bo, meta_, JStr(<<"x">>))),
    JsonLine(Obj1(main_, Obj1(age_, JNum(30)))),
    JsonLine(Obj1(a_b_, JStr(<<"x">>))) }

\* The lines of the inputs of SpecSample.
SampleLines ==
  { BlankLine,
    JsonLine(Obj3(name_, Al, age_, JNum(30), meta_, Obj1(city_, JStr(<<"W">>)))),
    JsonLine(Obj3(name_, Bo, age_, JNum(31), meta_, Obj1(city_, JStr(<<"B">>)))),
    JsonLine(Obj2(name_, Null, ids_, JArr(<<Obj1(ok_, Null)>>))),
    JsonLine(Obj2(age_, JNum(5), ids_, JArr(<<>>))),
    JsonLine(Obj1(id_, JStr(<<"x">>))) }

BoundedSeq(S, n) == UNION {[1..k -> S] : k \in 0..n}
Repeat(base, r) == [i \in 1..(Len(base) * r) |-> base[((i - 1) \div r) + 1]]
\* The three records of the README's example of symbol tables.
category_ == <<"c","a","t","e","g","o","r","y">>
ReadmeInput ==
  << JsonLine(Obj1(category_, JStr(<<"e","l","e","c","t","r","o","n","i","c","s">>))),
     JsonLine(Obj1(category_, JStr(<<"c","l","o","t","h","i","n","g">>))),
     JsonLine(Obj1(category_, JStr(<<"e","l","e","c","t","r","o","n","i","c","s">>))) >>
ShortInputs == BoundedSeq(ShortLines, MaxLines) \cup {ReadmeInput}
\* A full sample of one record followed by one more line.
TailInputs ==
  {Repeat(<<b>>, Sample) \o <<l>> : b \in SampleLines \ {BlankLine}, l \in SampleLines \ {BlankLine}}
LongInputs ==
  {Repeat(base, r) : base \in BoundedSeq(SampleLines, MaxBase) \ {<<>>}, r \in {RepShort, Rep}}
    \cup TailInputs

\* The range orders tried: sorted keys, and these keys first.
PrioChoices == {<<>>, <<name_ \o SufSymbol, name_, meta_ \o SufId, ids_>>}

(***************************************************************************)
(* State                                                                   *)
(***************************************************************************)
VARIABLES
  input,    \* the lines of the input file
  prio,     \* the order in which this run's map ranges visit keys
  pc,       \* where the import and the following dump stand
  an,       \* what AnalyzeJSON returned
  dbs,      \* the DatabaseSchema ParseDDL returned
  db,       \* the store as committed
  tx,       \* the store as the open transaction sees it
  line,     \* LoadData: the next line to read
  log,      \* LoadData: what became of each line read so far, and the id
            \* InsertRow returned for it
  nfail,    \* the INSERTs the store has refused
  nBegin,   \* transactions begun
  nCommit,  \* transactions committed
  out,      \* the objects DumpRows has printed
  dpos,     \* DumpRows: the next row of main to print
  symState, \* a symbol table and the getOrInsertSymbol calls made on it
  ordState, \* a table mapping and what resolveTableOrder returned for it
  ddlState  \* a DDL text and what ParseDDL returned for it
vars == <<input, pc, prio, an, dbs, db, tx, line, log, nfail, nBegin, nCommit, out, dpos,
          symState, ordState, ddlState>>

NoAnalysis == [ok |-> FALSE, schema |-> EmptyMap, symF |-> {}, symJ |-> {}, numRows |-> 0,
               ddl |-> <<>>, crash |-> ""]
NoSchema == [Tables |-> EmptyMap, TableOrder |-> <<>>, crash |-> ""]

NoSymbolCalls == [db |-> EmptyMap, calls |-> <<>>]
NoOrder == [tables |-> EmptyMap, prio |-> <<>>, done |-> FALSE,
            result |-> [order |-> <<>>, crash |-> ""]]

NoParse == [ddl |-> <<>>, done |-> FALSE, result |-> NoSchema]

InitWith(inputs) ==
  /\ input \in inputs
  /\ prio \in PrioChoices
  /\ pc = "start"
  /\ an = NoAnalysis
  /\ dbs = NoSchema
  /\ db = EmptyMap
  /\ tx = EmptyMap
  /\ line = 0
  /\ log = <<>>
  /\ nfail = 0
  /\ nBegin = 0
  /\ nCommit = 0
  /\ out = <<>>
  /\ dpos = 0
  /\ symState = NoSymbolCalls
  /\ ordState = NoOrder
  /\ ddlState = NoParse

Init == InitWith(ShortInputs)
InitSample == InitWith(LongInputs)

(***************************************************************************)
(* importCmd: AnalyzeJSON, CreateDatabase, ParseDDL, LoadData              *)
(***************************************************************************)
Analyze ==
  /\ pc = "start"
  /\ an' = AnalyzeJSON(input, Sample, prio)
  /\ pc' = IF an'.ok THEN "analyzed" ELSE "fatal"
  /\ UNCHANGED <<input, prio, dbs, db, tx, line, log, nfail, nBegin, nCommit, out, dpos, symState, ordState, ddlState>>

CreateDb ==
  /\ pc = "analyzed"
  /\ LET c == CreateDatabase(an.ddl)
         p == ParseDDL(an.ddl, prio)
     IN /\ db' = c.db
        /\ dbs' = IF c.ok THEN p ELSE dbs
        /\ pc' = IF ~c.ok THEN "fatal" ELSE IF p.crash # "" THEN "crashed" ELSE "created"
  /\ UNCHANGED <<input, prio, an, tx, line, log, nfail, nBegin, nCommit, out, dpos, symState, ordState, ddlState>>

\* db.Begin()
LoadBegin ==
  /\ pc = "created"
  /\ tx' = db
  /\ nBegin' = nBegin + 1
  /\ line' = 1
  /\ pc' = "loading"
  /\ UNCHANGED <<input, prio, an, dbs, db, log, nfail, nCommit, out, dpos, symState, ordState, ddlState>>

\* LoadData returning the error of InsertRow instead of going on.
returnInsertError(r) ==
  IF r.crash # "" THEN "crashed" ELSE IF r.err THEN "fatal" ELSE "loading"

\* Where LoadData stands after InsertRow returned r: an error is logged and
\* the loop goes on with the next line.
afterInsertRow(r) == IF r.crash # "" THEN "crashed" ELSE "loading"
lineResult(r) == IF r.crash # "" THEN "crash" ELSE IF r.err THEN "error" ELSE "ok"

\* One iteration of the scanner loop.
LoadLine ==
  /\ pc = "loading"
  /\ line <= Len(input)
  /\ line' = line + 1
  /\ LET l == input[line]
         u == UnmarshalMap(l)
     IN \/ /\ l.kind = "blank"
           /\ log' = Append(log, [res |-> "blank", id |-> 0])
           /\ UNCHANGED <<pc, tx, nfail>>
        \/ /\ l.kind # "blank" /\ ~u.ok
           /\ log' = Append(log, [res |-> "skip", id |-> 0])
           /\ UNCHANGED <<pc, tx, nfail>>
        \/ /\ l.kind # "blank" /\ u.ok
           /\ \E fail \in {NoFail} \cup
                  (IF nfail < MaxFail /\ line <= MaxFailLine THEN DOMAIN tx ELSE {}) :
                LET r == InsertRow(tx, main_, u.m, dbs, fail, prio)
                IN /\ tx' = r.db
                   /\ nfail' = IF fail = NoFail THEN nfail ELSE nfail + 1
                   /\ pc' = afterInsertRow(r)
                   /\ log' = Append(log, [res |-> lineResult(r), id |-> r.id])
  /\ UNCHANGED <<input, prio, an, dbs, db, nBegin, nCommit, out, dpos, symState, ordState, ddlState>>

\* A commit that does not wait for the end of the input.
CommitEarly ==
  /\ pc = "loading"
  /\ db' = tx
  /\ nCommit' = nCommit + 1
  /\ pc' = "loaded"
  /\ UNCHANGED <<input, prio, an, dbs, tx, line, log, nfail, nBegin, out, dpos, symState, ordState, ddlState>>

\* tx.Commit()
LoadCommit ==
  /\ pc = "loading"
  /\ line > Len(input)
  /\ db' = tx
  /\ nCommit' = nCommit + 1
  /\ pc' = "loaded"
  /\ UNCHANGED <<input, prio, an, dbs, tx, line, log, nfail, nBegin, out, dpos, symState, ordState, ddlState>>

\* The process ends before the commit: the open transaction is discarded.
Kill ==
  /\ pc = "loading"
  /\ pc' = "killed"
  /\ UNCHANGED <<input, prio, an, dbs, db, tx, line, log, nfail, nBegin, nCommit, out, dpos, symState, ordState, ddlState>>

(***************************************************************************)
(* dumpCmd: ParseDDL, DumpRows                                             *)
(***************************************************************************)
DumpStart ==
  /\ pc = "loaded"
  /\ pc' = IF main_ \notin DOMAIN dbs.Tables THEN "crashed"
           ELSE IF main_ \notin DOMAIN db THEN "dumperror"
           ELSE "dumping"
  /\ dpos' = 1
  /\ UNCHANGED <<input, prio, an, dbs, db, tx, line, log, nfail, nBegin, nCommit, out, symState, ordState, ddlState>>

\* The n-th row of a scan in descending rowid order.
scanRowDescending(rows, n) == rows[Len(rows) + 1 - n]

\* SELECT * FROM main: the n-th row the cursor yields, in rowid order.
scanRow(rows, n) == rows[n]

\* One iteration of the rows.Next() loop of dumpTable.
DumpRow ==
  /\ pc = "dumping"
  /\ dpos <= Len(db[main_].rows)
  /\ LET d == dumpRowValueSet(db, dbs, main_, scanRow(db[main_].rows, dpos))
     IN /\ out' = IF d.crash = "" THEN Append(out, d.obj) ELSE out
        /\ pc' = IF d.crash = "" THEN pc ELSE "crashed"
  /\ dpos' = dpos + 1
  /\ UNCHANGED <<input, prio, an, dbs, db, tx, line, log, nfail, nBegin, nCommit, symState, ordState, ddlState>>

DumpDone ==
  /\ pc = "dumping"
  /\ dpos > Len(db[main_].rows)
  /\ pc' = "done"
  /\ UNCHANGED <<input, prio, an, dbs, db, tx, line, log, nfail, nBegin, nCommit, out, dpos, symState, ordState, ddlState>>

Next ==
  \/ Analyze \/ CreateDb \/ LoadBegin \/ LoadLine \/ LoadCommit \/ Kill
  \/ DumpStart \/ DumpRow \/ DumpDone

Spec == Init /\ [][Next]_vars
SpecSample == InitSample /\ [][Next]_vars

(***************************************************************************)
(* getOrInsertSymbol, called any number of times on one symbol table       *)
(***************************************************************************)
\* The longest sequence of calls.
MaxCalls == 3
sym_ == <<"s">> \o SufSymbol
\* The values the calls are made with.
SymbolValues ==
  { Null, JStr(<<"a">>), JStr(<<"1">>), JNum(1), JBool(TRUE), JArr(<<JNum(1)>>),
    JStr(<<"[","1","]">>), JStr(<<"{","}">>), JStr(<<"t","r","u","e">>),
    JStr(<<"n","u","l","l">>), Obj1(<<"a">>, JNum(1)) }

Idle(at) ==
  /\ input = <<>>
  /\ prio = <<>>
  /\ pc = at
  /\ an = NoAnalysis
  /\ dbs = NoSchema
  /\ db = EmptyMap
  /\ tx = EmptyMap
  /\ line = 0
  /\ log = <<>>
  /\ nfail = 0
  /\ nBegin = 0
  /\ nCommit = 0
  /\ out = <<>>
  /\ dpos = 0

InitSymbol ==
  /\ Idle("symbol")
  /\ symState = [db |-> CreateDatabase(SymbolTableText(<<"s">>)).db, calls |-> <<>>]
  /\ ordState = NoOrder
  /\ ddlState = NoParse

SymbolCall ==
  /\ pc = "symbol"
  /\ Len(symState.calls) < MaxCalls
  /\ \E val \in SymbolValues :
       \E fail \in {NoFail} \cup
           (IF \A i \in DOMAIN symState.calls : ~symState.calls[i].err
            THEN {sym_} ELSE {}) :
         LET r == getOrInsertSymbol(symState.db, sym_, val, fail)
         IN symState' = [db |-> r.db,
                         calls |-> Append(symState.calls,
                                          [val |-> val, id |-> r.id, err |-> r.err,
                                           back |-> getSymbolValue(r.db, sym_, r.id)])]
  /\ UNCHANGED <<input, prio, pc, an, dbs, db, tx, line, log, nfail, nBegin, nCommit, out,
                 dpos, ordState, ddlState>>

NextSymbol == SymbolCall
SpecSymbol == InitSymbol /\ [][NextSymbol]_vars

(***************************************************************************)
(* resolveTableOrder on any table mapping                                  *)
(***************************************************************************)
\* The number of table names a mapping draws on.
MaxTables == 3
OrdNames == {<<Lower[i]>> : i \in 1..MaxTables}
\* The mapping in which table t has a foreign key t2_id to each t2 of refs[t].
OrdTables(refs) ==
  [t \in DOMAIN refs |->
     [Name |-> t,
      Fields |-> [c \in {id_} \cup {u \o SufId : u \in refs[t]} |-> TypeInt],
      FKs |-> [c \in {u \o SufId : u \in refs[t]} |-> TrimSuffix(c, SufId)],
      Indexes |-> <<>>]]
OrdMappings == {OrdTables(refs) : refs \in UNION {[S -> SUBSET OrdNames] : S \in SUBSET OrdNames}}
OrdPrios == {<<>>, Reverse(SortStrings({u \o SufId : u \in OrdNames}))}

InitOrder ==
  /\ Idle("order")
  /\ symState = NoSymbolCalls
  /\ ddlState = NoParse
  /\ \E tables \in OrdMappings, p \in OrdPrios :
       ordState = [tables |-> tables, prio |-> p, done |-> FALSE,
                   result |-> [order |-> <<>>, crash |-> ""]]

ResolveOrder ==
  /\ pc = "order"
  /\ ~ordState.done
  /\ ordState' = [ordState EXCEPT !.done = TRUE,
                    !.result = resolveTableOrder(ordState.tables, ordState.prio)]
  /\ UNCHANGED <<input, prio, pc, an, dbs, db, tx, line, log, nfail, nBegin, nCommit, out,
                 dpos, symState, ddlState>>

NextOrder == ResolveOrder
SpecOrder == InitOrder /\ [][NextOrder]_vars

(***************************************************************************)
(* dumpCmd on a store the loader need not have written: foreign keys and   *)
(* symbol ids that may point at no row                                     *)
(***************************************************************************)
\* The most rows of main in such a store.
MaxDumpRows == 2
\* The ids a foreign-key or symbol column of main holds.
DumpRefs == {SqlNull, SqlInt(0), SqlInt(1), SqlInt(2)}

\* The schema: main(age, id, meta_id -> meta, name_symbol -> name_symbol),
\* meta(city, id), name_symbol(id, value), as the analyzer writes it.
DumpTables ==
  (meta_ :> [Name |-> meta_, Fields |-> (city_ :> TypeText) @@ (id_ :> TypeInt),
             FKs |-> EmptyMap, Indexes |-> <<>>])
  @@ (main_ :> [Name |-> main_,
                Fields |-> (age_ :> TypeReal) @@ (id_ :> TypeInt) @@ (name_ :> TypeText)
                           @@ (meta_ \o SufId :> TypeInt),
                FKs |-> (meta_ \o SufId :> meta_), Indexes |-> <<>>])
DumpDDL ==
  TablesText(DumpTables, <<meta_, main_>>, {name_}, {}) \o SymbolTablesText(<<name_>>)

DumpMainRow(n, m, s) ==
  [id |-> n,
   vals |-> (id_ :> SqlInt(n)) @@ (age_ :> SqlReal(30)) @@ (meta_ \o SufId :> m)
            @@ (name_ \o SufSymbol :> s)]
DumpMetaRow ==
  [id |-> 1, vals |-> (id_ :> SqlInt(1)) @@ (city_ :> SqlText(<<"W">>))]
DumpSymbolRow ==
  [id |-> 1, vals |-> (id_ :> SqlInt(1)) @@ (value_ :> SqlText(Marshal(Al)))]
DumpStores ==
  {[CreateDatabase(DumpDDL).db EXCEPT
      ![main_].rows = [i \in DOMAIN refs |-> DumpMainRow(i, refs[i][1], refs[i][2])],
      ![meta_].rows = metas,
      ![name_ \o SufSymbol].rows = syms] :
     refs \in BoundedSeq(DumpRefs \X DumpRefs, MaxDumpRows),
     metas \in {<<>>, <<DumpMetaRow>>},
     syms \in {<<>>, <<DumpSymbolRow>>}}

InitDump ==
  /\ input = <<>>
  /\ prio = <<>>
  /\ pc = "loaded"
  /\ an = NoAnalysis
  /\ dbs = ParseDDL(DumpDDL, <<>>)
  /\ db \in DumpStores
  /\ tx = EmptyMap
  /\ line = 0
  /\ log = <<>>
  /\ nfail = 0
  /\ nBegin = 0
  /\ nCommit = 0
  /\ out = <<>>
  /\ dpos = 0
  /\ symState = NoSymbolCalls
  /\ ordState = NoOrder
  /\ ddlState = NoParse

NextDump == DumpStart \/ DumpRow \/ DumpDone
SpecDump == InitDump /\ [][NextDump]_vars

(***************************************************************************)
(* ParseDDL on any DDL text                                                *)
(***************************************************************************)
\* The longest text, in lines.
MaxDdlLines == 4
t_ == <<"t">>
u_ == <<"u">>
\* The lines a text is made of: blank, comment, CREATE TABLE, column,
\* column with a foreign key, the two closing lines, CREATE INDEX.
DdlLines ==
  { <<" ">>,
    <<"-","-"," ">> \o city_ \o <<" ">> \o TypeText,
    KwCreateTable \o t_ \o <<" ","(">>,
    KwCreateTable \o u_ \o <<" ","(">>,
    Indent \o age_ \o <<" ">> \o TypeInt \o <<",">>,
    Indent \o u_ \o SufId \o <<" ">> \o TypeInt \o <<" ">> \o KwReferences
      \o <<" ">> \o u_ \o <<"(","i","d",")">>,
    <<")",";">>,
    <<")">>,
    IndexText(IndexDef(KwIdx \o t_ \o <<"_">> \o age_, t_, age_, FALSE)) }

InitParse ==
  /\ Idle("parse")
  /\ symState = NoSymbolCalls
  /\ ordState = NoOrder
  /\ \E ddl \in BoundedSeq(DdlLines, MaxDdlLines) :
       ddlState = [ddl |-> ddl, done |-> FALSE, result |-> NoSchema]

ParseScript ==
  /\ pc = "parse"
  /\ ~ddlState.done
  /\ ddlState' = [ddlState EXCEPT !.done = TRUE, !.result = ParseDDL(ddlState.ddl, <<>>)]
  /\ UNCHANGED <<input, prio, pc, an, dbs, db, tx, line, log, nfail, nBegin, nCommit, out,
                 dpos, symState, ordState>>

NextParse == ParseScript
SpecParse == InitParse /\ [][NextParse]_vars

(***************************************************************************)
(* Properties                                                              *)
(***************************************************************************)
\* The lines of an input that are JSON objects, and the records they hold.
ObjectLines(inp) == SelectSeq(inp, LAMBDA l : l.kind = "json" /\ IsObj(l.v))
Records(inp) == [i \in DOMAIN ObjectLines(inp) |-> Val(ObjectLines(inp)[i].v)]
AllObjects(inp) ==
  \A i \in DOMAIN inp : inp[i].kind = "blank" \/ (inp[i].kind = "json" /\ IsObj(inp[i].v))

\* normalizeJSON of the round-trip test: id is deleted at the top level and
\* in the objects one level down.
normalizeJSON(objs) ==
  [i \in DOMAIN objs |->
     [k \in DOMAIN objs[i] \ {id_} |->
        IF IsObj(objs[i][k])
        THEN JObj([j \in DOMAIN Val(objs[i][k]) \ {id_} |-> Val(objs[i][k])[j]])
        ELSE objs[i][k]]]
BagOf(objs) == [x \in Range(objs) |-> Cardinality({i \in DOMAIN objs : objs[i] = x})]

\* The lines InsertRow wrote a main row for, in order, and the object
\* DumpRows printed for line i.
Loaded == {i \in DOMAIN log : log[i].res = "ok" /\ log[i].id > 0}
LoadedIds == LET hit == SelectSeq(log, LAMBDA e : e.res = "ok" /\ e.id > 0)
             IN [i \in DOMAIN hit |-> hit[i].id]
MainRows == IF main_ \in DOMAIN db THEN db[main_].rows ELSE <<>>

\* C1: for an input whose non-blank lines are all JSON objects, what
\* inference, CreateDatabase, LoadData and DumpRows yield is, as a multiset
\* and after normalizeJSON, the records of the input.
C1_RoundTrip ==
  (pc = "done" /\ nfail = 0 /\ AllObjects(input))
    => BagOf(normalizeJSON(out)) = BagOf(normalizeJSON(Records(input)))

\* No field of an object is null, at any depth, inside arrays too.
RECURSIVE NullFree(_)
NullFree(x) ==
  CASE Kind(x) = "obj" -> \A k \in DOMAIN Val(x) : Val(x)[k] # Null /\ NullFree(Val(x)[k])
    [] Kind(x) = "arr" -> \A i \in DOMAIN Val(x) : NullFree(Val(x)[i])
    [] OTHER -> TRUE
\* No field of an object built from a row of table t is null, and so for
\* the objects built from the child rows its foreign keys lead to.
RECURSIVE RowNullFree(_, _)
RowNullFree(t, o) ==
  \A f \in DOMAIN o :
     /\ o[f] # Null
     /\ (t \in DOMAIN dbs.Tables /\ (f \o SufId) \in DOMAIN dbs.Tables[t].FKs /\ IsObj(o[f]))
          => RowNullFree(dbs.Tables[t].FKs[f \o SufId], Val(o[f]))

\* C2 as stated: in every object DumpRows prints no field is null, at every
\* nesting level.
C2_NoNullAnywhere == \A i \in DOMAIN out : NullFree(JObj(out[i]))

\* C2 amended: no field of an object DumpRows builds from a row (a main row,
\* or a child row reached through foreign keys) is null, and a field that
\* is absent or null in a loaded record is absent from the object printed
\* for it.
C2_RowFieldsNotNull ==
  /\ \A i \in DOMAIN out : RowNullFree(main_, out[i])
  /\ pc = "done" =>
       \A i \in Loaded : \A f \in DOMAIN out[log[i].id] :
          Get(Val(input[i].v), f) # Null

C2_Witness ==
  /\ pc = "done"
  /\ (name_ \o SufSymbol) \in DOMAIN dbs.Tables[main_].FKs
  /\ (meta_ \o SufId) \in DOMAIN dbs.Tables[main_].FKs
  /\ \E i \in Loaded :
       /\ name_ \in DOMAIN Val(input[i].v) /\ Val(input[i].v)[name_] = Null
       /\ meta_ \notin DOMAIN Val(input[i].v)
       /\ name_ \notin DOMAIN out[log[i].id]
       /\ meta_ \notin DOMAIN out[log[i].id]
       /\ out[log[i].id] # EmptyMap

\* C3: over the calls that returned no error, equal values got equal ids
\* and different values different ids; the table holds no value twice.
C3_SymbolIds ==
  LET calls == symState.calls
      good == {i \in DOMAIN calls : ~calls[i].err}
      rows == IF sym_ \in DOMAIN symState.db THEN symState.db[sym_].rows ELSE <<>>
  IN /\ \A i, j \in good : (calls[i].val = calls[j].val) <=> (calls[i].id = calls[j].id)
     /\ \A i, j \in DOMAIN rows : rows[i].vals[value_] = rows[j].vals[value_] => i = j
     /\ \A i \in good : calls[i].val # Null =>
          \E k \in DOMAIN rows : /\ rows[k].id = calls[i].id
                                 /\ rows[k].vals[value_] = SqlText(Marshal(calls[i].val))

C3_Witness ==
  /\ Len(symState.calls) = 3
  /\ \A i \in 1..3 : ~symState.calls[i].err
  /\ symState.calls[1].val = JStr(<<"1">>)
  /\ symState.calls[2].val = JNum(1)
  /\ symState.calls[3].val = JStr(<<"1">>)
  /\ symState.calls[1].id = symState.calls[3].id
  /\ symState.calls[1].id # symState.calls[2].id

\* The tables a table reaches through foreign keys in at most n steps.
RECURSIVE ReachIn(_, _, _)
ReachIn(tables, S, n) ==
  IF n = 0 THEN S
  ELSE ReachIn(tables,
               S \cup UNION {Range(tables[t].FKs) : t \in S \cap DOMAIN tables}, n - 1)
Targets(tables, t) == Range(tables[t].FKs)
Closed(tables) == \A t \in DOMAIN tables : Targets(tables, t) \subseteq DOMAIN tables
Acyclic(tables) ==
  \A t \in DOMAIN tables :
     t \notin ReachIn(tables, Targets(tables, t), Cardinality(DOMAIN tables))
PosIn(order, t) == CHOOSE i \in DOMAIN order : order[i] = t

\* C4: on a mapping whose foreign-key graph is acyclic resolveTableOrder
\* returns every table name exactly once, each table after all the tables
\* its foreign keys name.
C4_TableOrder ==
  LET tables == ordState.tables
      order == ordState.result.order
  IN (ordState.done /\ Closed(tables) /\ Acyclic(tables)) =>
       /\ ordState.result.crash = ""
       /\ Len(order) = Cardinality(DOMAIN tables)
       /\ Range(order) = DOMAIN tables
       /\ \A t \in DOMAIN tables : \A u \in Targets(tables, t) :
            PosIn(order, u) < PosIn(order, t)

C4_Witness ==
  /\ ordState.done
  /\ Closed(ordState.tables) /\ Acyclic(ordState.tables)
  /\ DOMAIN ordState.tables = OrdNames
  /\ Targets(ordState.tables, <<"a">>) = {<<"c">>}
  /\ Targets(ordState.tables, <<"c">>) = {<<"b">>}
  /\ ordState.result.order = << <<"b">>, <<"c">>, <<"a">> >>

\* C5: after LoadData the main table has as many rows as the input has
\* non-blank lines that parse as a JSON object.
C5_MainRowCount ==
  (pc = "loaded" /\ nfail = 0) => Len(MainRows) = Len(ObjectLines(input))

\* C6: one transaction is begun, before the first line is read; it is
\* committed once, after the last line; until then the store holds no row.
C6_OneTransaction ==
  /\ nBegin <= 1 /\ nCommit <= nBegin
  /\ (line >= 1 <=> nBegin = 1)
  /\ (nCommit = 1 => line = Len(input) + 1 /\ Len(log) = Len(input))
  /\ (nCommit = 0 => \A t \in DOMAIN db : db[t].rows = <<>>)
  /\ (pc = "killed" => nCommit = 0)

C6_Witness ==
  /\ pc = "killed"
  /\ line = 3
  /\ Len(tx[main_].rows) = 2
  /\ db[main_].rows = <<>>
  /\ nBegin = 1 /\ nCommit = 0

\* C7: a line that does not parse, or whose InsertRow returns an error, is
\* logged and adds no main row; the loop reads every later line, and the
\* run commits.
C7_SkipAndContinue ==
  /\ (line >= 1 /\ pc # "crashed") => pc \in {"loading", "killed", "loaded", "dumping", "done"}
  /\ pc \in {"loading", "killed"} => Len(log) = line - 1
  /\ pc \in {"loaded", "dumping", "done"} =>
       /\ nCommit = 1
       /\ Len(log) = Len(input)
       /\ [i \in DOMAIN MainRows |-> MainRows[i].id] = LoadedIds

C7_Witness ==
  /\ pc = "done"
  /\ Len(log) = 2
  /\ log[1].res = "error"
  /\ log[2].res = "ok"
  /\ Len(out) = 1

\* C8: DumpRows prints one object per row of main, in ascending id order,
\* which is the order in which the lines were loaded.
C8_DumpOrder ==
  pc = "done" =>
    /\ Len(out) = Len(MainRows)
    /\ \A i \in DOMAIN MainRows :
         /\ MainRows[i].id = i
         /\ out[i] = dumpRowValueSet(db, dbs, main_, MainRows[i]).obj
    /\ LoadedIds = [i \in DOMAIN MainRows |-> i]

C8_Witness ==
  /\ pc = "done"
  /\ Len(out) = 2
  /\ out[1] # out[2]
  /\ out[1] = normalizeJSON(Records(input))[1]

\* What the Analyzer emitted: the tables of the schema with their columns
\* as written, and the symbol tables.
EmittedColumn(k, symF, symJ) == IF k \in symF \cup symJ THEN k \o SufSymbol ELSE k
EmittedTable(ts, symF, symJ) ==
  [Fields |-> [c \in {EmittedColumn(k, symF, symJ) : k \in DOMAIN ts.Fields} |->
                 IF c \in DOMAIN ts.Fields /\ c \notin symF \cup symJ THEN ts.Fields[c]
                 ELSE TypeInt],
   FKs |-> [c \in {EmittedColumn(k, symF, symJ) : k \in DOMAIN ts.Fields \cap (symF \cup symJ)}
                  \cup {k \in DOMAIN ts.FKs \cap DOMAIN ts.Fields : k \notin symF \cup symJ} |->
              IF c \in DOMAIN ts.FKs /\ c \notin symF \cup symJ THEN ts.FKs[c] ELSE c]]
EmittedSymbolTable ==
  [Fields |-> (id_ :> TypeInt) @@ (value_ :> TypeText), FKs |-> EmptyMap]
EmittedTables(a) ==
  [t \in DOMAIN a.schema \cup {f \o SufSymbol : f \in a.symF \cup a.symJ} |->
     IF t \in DOMAIN a.schema THEN EmittedTable(a.schema[t], a.symF, a.symJ)
     ELSE EmittedSymbolTable]

\* C9: ParseDDL applied to the emitted DDL yields the emitted tables, with
\* their columns, types and foreign keys, and no other.
C9_ParseInvertsEmit ==
  an.ok =>
    LET parsed == ParseDDL(an.ddl, prio).Tables
        emitted == EmittedTables(an)
    IN /\ DOMAIN parsed = DOMAIN emitted
       /\ \A t \in DOMAIN parsed \cap DOMAIN emitted :
            /\ parsed[t].Fields = emitted[t].Fields
            /\ parsed[t].FKs = emitted[t].FKs

\* A sample of 20 records in which field f is a string with 2 distinct values.
TwoValued(f) ==
  LET roots == SampleRoots(input, Sample)
  IN /\ Len(roots) = 20
     /\ \A i \in DOMAIN roots : f \in DOMAIN roots[i] /\ Kind(roots[i][f]) = "str"
     /\ Cardinality({roots[i][f] : i \in DOMAIN roots}) = 2
FieldNames == {name_, age_, meta_, city_, ids_, ok_}
HasLines(ddl, block) ==
  \E j \in DOMAIN ddl :
     j + Len(block) - 1 <= Len(ddl) /\ SubSeq(ddl, j, j + Len(block) - 1) = block

\* C10: for such a sample the DDL creates table f_symbol, main has column
\* f_symbol and no column f, and the dump gives each record its own string.
C10_SymbolField ==
  \A f \in FieldNames :
    (an.ok /\ TwoValued(f)) =>
      /\ HasLines(an.ddl, SymbolTableText(f))
      /\ \E j \in DOMAIN an.ddl : HasPrefix(an.ddl[j], SymbolColumnText(f))
      /\ \A j \in DOMAIN an.ddl :
           ~HasPrefix(an.ddl[j], Indent \o f \o <<" ">> \o TypeText)
      /\ pc \in {"created", "loading", "loaded", "dumping", "done"} =>
           /\ (f \o SufSymbol) \in DOMAIN db
           /\ (f \o SufSymbol) \in DOMAIN dbs.Tables[main_].Fields
           /\ f \notin DOMAIN dbs.Tables[main_].Fields
      /\ pc = "done" =>
           \A i \in Loaded :
              (f \in DOMAIN Val(input[i].v) /\ Kind(Val(input[i].v)[f]) = "str") =>
                 /\ f \in DOMAIN out[log[i].id]
                 /\ out[log[i].id][f] = Val(input[i].v)[f]

C10_Witness ==
  /\ pc = "done"
  /\ TwoValued(name_)
  /\ Len(out) = 20
  /\ out[1][name_] = Al
  /\ out[20][name_] = Bo
  /\ Len(db[name_ \o SufSymbol].rows) = 2

\* A record of the shape of TestImportAllAndDump: a string, a number and a
\* nested object of string fields.
BasicShape(l) ==
  /\ l.kind = "json" /\ IsObj(l.v)
  /\ DOMAIN Val(l.v) = {name_, age_, meta_}
  /\ Kind(Val(l.v)[name_]) = "str"
  /\ Kind(Val(l.v)[age_]) = "num"
  /\ IsObj(Val(l.v)[meta_])
  /\ DOMAIN Val(Val(l.v)[meta_]) # {}
  /\ \A k \in DOMAIN Val(Val(l.v)[meta_]) : Kind(Val(Val(l.v)[meta_])[k]) = "str"
AllBasic(inp) == inp # <<>> /\ \A i \in DOMAIN inp : BasicShape(inp[i])

\* C11: for records of that shape, import followed by dump prints every
\* record as it was read: the nested object with its own keys and no id,
\* the number as a number.
C11_BasicRoundTrip ==
  (pc = "done" /\ nfail = 0 /\ AllBasic(input)) =>
     /\ Len(out) = Len(input)
     /\ \A i \in DOMAIN input : out[i] = Val(input[i].v)

\* The value of field f in the record of line l, null when there is none.
FieldOf(l, f) == IF l.kind = "json" /\ IsObj(l.v) THEN Get(Val(l.v), f) ELSE Null

\* Field f is an array in every record that carries it, and main stores it
\* in a column of its own.
ArrayField(f) ==
  /\ \E i \in DOMAIN input : input[i].kind = "json" /\ IsObj(input[i].v) /\ IsArr(FieldOf(input[i], f))
  /\ \A i \in DOMAIN input :
       (input[i].kind = "json" /\ IsObj(input[i].v) /\ f \in DOMAIN Val(input[i].v))
          => IsArr(Val(input[i].v)[f])
  /\ main_ \in DOMAIN dbs.Tables
  /\ f \in DOMAIN dbs.Tables[main_].Fields
  /\ f \notin DOMAIN dbs.Tables[main_].FKs

\* C12: an array field stored in a column of its own is dumped, for every
\* loaded record, as the array that was read, the empty array included.
C12_ArraysKept ==
  pc = "done" =>
    \A f \in FieldNames : ArrayField(f) =>
       \A i \in Loaded :
          IsArr(FieldOf(input[i], f)) =>
             /\ f \in DOMAIN out[log[i].id]
             /\ out[log[i].id][f] = FieldOf(input[i], f)

C12_Witness ==
  /\ pc = "done"
  /\ ArrayField(ids_)
  /\ Len(out) = 2
  /\ ids_ \in DOMAIN out[1] /\ out[1][ids_] = JArr(<<JNum(1), JNum(2)>>)
  /\ ids_ \in DOMAIN out[2] /\ out[2][ids_] = JArr(<<>>)

\* The objects of the sample: the sampled records and every object that is
\* the value of a field of one of them, at any depth.
RECURSIVE ObjectsUnder(_)
ObjectsUnder(S) ==
  LET more == S \cup {Val(o[k]) : <<o, k>> \in
                        {ok \in UNION {{o} \X DOMAIN o : o \in S} : IsObj(ok[1][ok[2]])}}
  IN IF more = S THEN S ELSE ObjectsUnder(more)
SampleObjects == ObjectsUnder(Range(SampleRoots(input, Sample)))
\* The distinct strings, and the distinct arrays as JSON text, field f holds
\* in the sample.
StringsOf(f) ==
  {Val(o[f]) : o \in {x \in SampleObjects : f \in DOMAIN x /\ Kind(x[f]) = "str"}}
ArraysOf(f) ==
  {Marshal(o[f]) : o \in {x \in SampleObjects : f \in DOMAIN x /\ Kind(x[f]) = "arr"}}

CreateLines(ddl, t) == {j \in DOMAIN ddl : ddl[j] = KwCreateTable \o t \o <<" ", "(">>}
AllCreateLines(ddl) == {j \in DOMAIN ddl : HasPrefix(ddl[j], KwCreateTable)}
OwnerLine(ddl, j) ==
  CHOOSE k \in AllCreateLines(ddl) : k <= j /\ \A m \in AllCreateLines(ddl) : m <= j => m <= k
RefLines(ddl) == {j \in DOMAIN ddl : Contains(ddl[j], KwReferences)}
RefTarget(text) == MatchRef(text).name
SymbolTableNames(a) == {f \o SufSymbol : f \in a.symF \cup a.symJ}

StatementLines(ddl, k) == {j \in DOMAIN ddl : j > k /\ OwnerLine(ddl, j) = k}
IdColumnText == Indent \o id_ \o <<" ">> \o TypeInt \o KwPrimaryKey

\* C16: every CREATE TABLE statement of the emitted DDL declares the column
\* id INTEGER PRIMARY KEY.
C16_IdPrimaryKey ==
  an.ok =>
    \A k \in AllCreateLines(an.ddl) :
       \E j \in StatementLines(an.ddl, k) :
          an.ddl[j] \in {IdColumnText, IdColumnText \o <<",">>}

\* C17: for a fixed mapping resolveTableOrder returns the same sequence
\* whatever order the map ranges take, and of two tables with no foreign-key
\* path between them the one with the smaller name comes first.
C17_OrderDeterministic ==
  (ordState.done /\ Closed(ordState.tables) /\ Acyclic(ordState.tables)) =>
     /\ \A p \in OrdPrios :
          resolveTableOrder(ordState.tables, p) = ordState.result
     /\ \A t, u \in DOMAIN ordState.tables :
          ( /\ LexLess(t, u)
            /\ t \notin ReachIn(ordState.tables, {u}, Cardinality(DOMAIN ordState.tables))
            /\ u \notin ReachIn(ordState.tables, {t}, Cardinality(DOMAIN ordState.tables)) )
            => PosIn(ordState.result.order, t) < PosIn(ordState.result.order, u)

\* C18: when a foreign key names a table that is not in the mapping,
\* resolveTableOrder returns, and what it returns holds every table of the
\* mapping once, after the tables of the mapping its foreign keys name.
C18_MissingTargetSkipped ==
  (ordState.done /\ ~Closed(ordState.tables) /\ Acyclic(ordState.tables)) =>
     /\ ordState.result.crash = ""
     /\ Len(ordState.result.order) = Cardinality(DOMAIN ordState.tables)
     /\ Range(ordState.result.order) = DOMAIN ordState.tables
     /\ \A t \in DOMAIN ordState.tables :
          \A u \in Targets(ordState.tables, t) \cap DOMAIN ordState.tables :
             PosIn(ordState.result.order, u) < PosIn(ordState.result.order, t)

\* The statement CREATE [UNIQUE ]INDEX idx_<t>_<c> ON <t> (<c>); as text.
IndexStatement(t, c, unique) ==
  (IF unique THEN <<"C","R","E","A","T","E"," ","U","N","I","Q","U","E"," ","I","N","D","E","X"," ","i","d","x","_">> ELSE <<"C","R","E","A","T","E"," ","I","N","D","E","X"," ","i","d","x","_">>)
    \o t \o <<"_">> \o c \o <<" ","O","N"," ">> \o t \o <<" ", "(">> \o c \o <<")", ";">>
\* The foreign-key and symbol columns the DDL declares, as <<table, column>>.
ReferencingColumns(ddl) ==
  {<<MatchCreate(ddl[OwnerLine(ddl, j)]).name, MatchField(ddl[j]).col>> : j \in RefLines(ddl)}

\* C19: the emitted DDL has a non-unique index on every foreign-key column
\* and on every _symbol column, and a unique index on the value column of
\* every symbol table.
C19_IndexesEmitted ==
  an.ok =>
    /\ \A tc \in ReferencingColumns(an.ddl) :
         IndexStatement(tc[1], tc[2], FALSE) \in Range(an.ddl)
    /\ \A u \in SymbolTableNames(an) :
         IndexStatement(u, value_, TRUE) \in Range(an.ddl)

\* The _symbol columns of main, as the parsed schema has them.
SymbolColumns ==
  IF main_ \in DOMAIN dbs.Tables
  THEN {c \in DOMAIN dbs.Tables[main_].FKs : HasSuffix(c, SufSymbol)}
  ELSE {}

\* C20: in the row InsertRow writes for a record, a _symbol column holds
\* the id of the symbol row of the base field's value when that value is
\* present and not null, and NULL when it is absent or null.
C20_SymbolColumn ==
  pc \in {"loaded", "dumping", "done"} =>
    \A i \in Loaded : \A c \in SymbolColumns :
       LET stored == MainRows[log[i].id].vals[c]
           base == FieldOf(input[i], TrimSuffix(c, SufSymbol))
       IN IF base = Null THEN stored = SqlNull
          ELSE /\ Kind(stored) = "int"
               /\ \E r \in Range(db[dbs.Tables[main_].FKs[c]].rows) :
                    r.id = Val(stored) /\ r.vals[value_] = SqlText(Marshal(base))

\* The _id foreign-key columns of main, as the parsed schema has them.
NestedColumns ==
  IF main_ \in DOMAIN dbs.Tables
  THEN {c \in DOMAIN dbs.Tables[main_].FKs : HasSuffix(c, SufId) /\ ~HasSuffix(c, SufSymbol)}
  ELSE {}
\* The lines read so far whose record carries an object at field f.
ObjectAt(f) == {i \in DOMAIN log : IsObj(FieldOf(input[i], f))}
\* Row r of a child table holds the members of object o that have a column.
HoldsObject(t, r, o) ==
  \A f \in DOMAIN o : (f \in Range(tx[t].cols) /\ Kind(o[f]) \in {"str", "num", "bool", "null"})
                         => r.vals[f] = ApplyAffinity(Affinity(tx[t].decl[f]), Bind(o[f]))

C22_ChildReuse ==
  (pc = "loaded" /\ main_ \in DOMAIN tx) =>
    \A c \in NestedColumns :
       \A i, j \in Loaded :
          (/\ IsObj(FieldOf(input[i], TrimSuffix(c, SufId)))
           /\ FieldOf(input[i], TrimSuffix(c, SufId)) = FieldOf(input[j], TrimSuffix(c, SufId)))
             => tx[main_].rows[log[i].id].vals[c] = tx[main_].rows[log[j].id].vals[c]

\* Whether the stored value x is the id of a row of table t.
Resolves(t, x) == Kind(x) = "int" /\ \E r \in Range(db[t].rows) : r.id = Val(x)

\* C23: a dump never stops on a symbol id or a foreign key that points at
\* no row: every row of main is printed, with its other fields, and the
\* base field is in the printed object exactly when the id resolves.
C23_UnresolvedOmitted ==
  /\ pc \notin {"crashed", "dumperror"}
  /\ pc = "done" =>
       /\ Len(out) = Len(db[main_].rows)
       /\ \A i \in DOMAIN out :
            LET row == db[main_].rows[i] IN
            /\ age_ \in DOMAIN out[i] /\ out[i][age_] = JNum(30)
            /\ name_ \in DOMAIN out[i] <=> Resolves(name_ \o SufSymbol, row.vals[name_ \o SufSymbol])
            /\ meta_ \in DOMAIN out[i] <=> Resolves(meta_, row.vals[meta_ \o SufId])
            /\ DOMAIN out[i] \subseteq {age_, name_, meta_}
            /\ name_ \in DOMAIN out[i] => out[i][name_] = Al
            /\ meta_ \in DOMAIN out[i] => out[i][meta_] = Obj1(city_, JStr(<<"W">>))

C23_Witness ==
  /\ pc = "done"
  /\ Len(out) = 2
  /\ db[main_].rows[1].vals[meta_ \o SufId] = SqlInt(2)
  /\ db[main_].rows[1].vals[name_ \o SufSymbol] = SqlInt(2)
  /\ db[main_].rows[2].vals[meta_ \o SufId] = SqlInt(1)
  /\ db[meta_].rows # <<>>
  /\ out[1] = (age_ :> JNum(30))
  /\ meta_ \in DOMAIN out[2]

\* The lines of a DDL text by what the claim calls them.
IsBlankOrComment(l) == TrimSpace(l) = <<>> \/ HasPrefix(TrimSpace(l), <<"-","-">>)
IsCreateLine(l) == ~IsBlankOrComment(l) /\ MatchCreate(TrimSpace(l)).ok
IsClosingLine(l) == TrimSpace(l) = <<")">> \/ HasPrefix(TrimSpace(l), <<")",";">>)
\* Line i lies inside a block: after a CREATE TABLE line, with no closing
\* line between the two.
InsideBlock(ddl, i) ==
  \E j \in 1..(i - 1) :
     IsCreateLine(ddl[j]) /\ \A k \in (j + 1)..(i - 1) : ~IsClosingLine(ddl[k])
IgnoredLine(ddl, i) ==
  IsBlankOrComment(ddl[i]) \/ (~IsCreateLine(ddl[i]) /\ ~InsideBlock(ddl, i))
\* The text without the lines to ignore.
KeptLines(ddl) ==
  LET keep == {i \in DOMAIN ddl : ~IgnoredLine(ddl, i)}
  IN [n \in 1..Cardinality(keep) |->
        ddl[CHOOSE i \in keep : Cardinality({j \in keep : j <= i}) = n]]

\* C24: ParseDDL returns for a text what it returns for the text without
\* its blank lines, its comment lines and its lines outside a CREATE TABLE
\* block: these lines add no table, no column and no foreign key, and the
\* tables are those the CREATE TABLE lines name.
C24_IgnoredLines ==
  ddlState.done =>
    /\ ddlState.result = ParseDDL(KeptLines(ddlState.ddl), <<>>)
    /\ DOMAIN ddlState.result.Tables =
         {MatchCreate(TrimSpace(ddlState.ddl[i])).name :
            i \in {j \in DOMAIN ddlState.ddl : IsCreateLine(ddlState.ddl[j])}}

C24_Witness ==
  /\ ddlState.done
  /\ Len(ddlState.ddl) = 4
  /\ IsCreateLine(ddlState.ddl[1])
  /\ IsBlankOrComment(ddlState.ddl[2]) /\ ddlState.ddl[2] # <<" ">>
  /\ IsClosingLine(ddlState.ddl[3])
  /\ IsIndexLine(ddlState.ddl[4])
  /\ DOMAIN ddlState.result.Tables = {t_}
  /\ DOMAIN ddlState.result.Tables[t_].Fields = {}

\* The tables of the parsed schema whose only column is id.
IdOnlyTables == {t \in DOMAIN dbs.Tables : DOMAIN dbs.Tables[t].Fields = {id_}}

\* C25: a table whose only column is id never receives a row, and InsertRow
\* on it returns 0 and no error, also when the store would refuse an INSERT.
C25_NoColumnsNoRow ==
  (pc \in {"loading", "loaded"} /\ main_ \in DOMAIN tx) =>
    \A t \in IdOnlyTables :
       /\ t \in DOMAIN tx => tx[t].rows = <<>>
       /\ t = main_ =>
            \A i \in DOMAIN log :
               UnmarshalMap(input[i]).ok => log[i] = [res |-> "ok", id |-> 0]

C25_Witness ==
  /\ pc = "loaded"
  /\ IdOnlyTables = {main_}
  /\ input = <<JsonLine(JObj(EmptyMap)), JsonLine(JObj(EmptyMap))>>
  /\ log = <<[res |-> "ok", id |-> 0], [res |-> "ok", id |-> 0]>>
  /\ tx[main_].rows = <<>>
  /\ nfail = 1

\* C26: in the committed store every value of a foreign-key column, of any
\* table, that is neither NULL nor 0 is the id of a row of the table the
\* column references, child table or symbol table.
C26_ReferencesResolve ==
  pc \in {"loaded", "dumping", "done"} =>
    \A t \in DOMAIN dbs.Tables \cap DOMAIN db :
       \A c \in DOMAIN dbs.Tables[t].FKs \cap Range(db[t].cols) :
          \A row \in Range(db[t].rows) :
             (row.vals[c] # SqlNull /\ row.vals[c] # SqlInt(0)) =>
                /\ dbs.Tables[t].FKs[c] \in DOMAIN db
                /\ Resolves(dbs.Tables[t].FKs[c], row.vals[c])

C26_Witness ==
  /\ pc = "loaded"
  /\ nfail = 1
  /\ name_ \o SufSymbol \in DOMAIN db /\ meta_ \in DOMAIN db
  /\ \E row \in Range(db[main_].rows) :
       /\ name_ \o SufSymbol \in DOMAIN row.vals /\ meta_ \o SufId \in DOMAIN row.vals
       /\ Kind(row.vals[name_ \o SufSymbol]) = "int" /\ Val(row.vals[name_ \o SufSymbol]) > 0
       /\ Kind(row.vals[meta_ \o SufId]) = "int" /\ Val(row.vals[meta_ \o SufId]) > 1
       /\ Len(db[meta_].rows) > Len(db[main_].rows)

\* C27: a line whose InsertRow returns an error leaves the transaction as
\* it was before the line was read, so that no row written for the record
\* is committed.
C27_FailedLeavesNothing ==
  [][(pc = "loading" /\ Len(log') = Len(log) + 1 /\ log'[Len(log')].res = "error")
       => tx' = tx]_vars

\* C28: AnalyzeJSON returns for every sample: the schema it infers has an
\* acyclic foreign-key graph, and resolveTableOrder comes back from it.
C28_InferenceAcyclic ==
  pc # "start" => (an.crash = "" /\ Acyclic(an.schema))

\* C29: for a value that is not null, getSymbolValue on the id that
\* getOrInsertSymbol returned yields the value itself, right after the call
\* and after any later call: strings that look like arrays, objects,
\* numbers, booleans or null come back as strings.
C29_SymbolRoundTrip ==
  \A i \in DOMAIN symState.calls :
     (~symState.calls[i].err /\ symState.calls[i].val # Null) =>
        /\ symState.calls[i].back = [ok |-> TRUE, v |-> symState.calls[i].val]
        /\ getSymbolValue(symState.db, sym_, symState.calls[i].id)
             = [ok |-> TRUE, v |-> symState.calls[i].val]

C29_Witness ==
  /\ Len(symState.calls) = 3
  /\ symState.calls[1].val = JStr(<<"[","1","]">>) /\ ~symState.calls[1].err
  /\ symState.calls[2].val = JArr(<<JNum(1)>>) /\ ~symState.calls[2].err
  /\ symState.calls[3].val = JStr(<<"n","u","l","l">>) /\ ~symState.calls[3].err
  /\ symState.calls[1].back.v = JStr(<<"[","1","]">>)
  /\ symState.calls[2].back.v = JArr(<<JNum(1)>>)
  /\ symState.calls[3].back.v = JStr(<<"n","u","l","l">>)
  /\ Len(symState.db[sym_].rows) = 3

\* The fields of the record of line i that main has no column for.
Uncolumned(i) ==
  {f \in DOMAIN UnmarshalMap(input[i]).m :
     /\ f \notin DOMAIN dbs.Tables[main_].Fields
     /\ f \o SufId \notin DOMAIN dbs.Tables[main_].Fields
     /\ f \o SufSymbol \notin DOMAIN dbs.Tables[main_].Fields}

\* C30: a record with a field that main has no column for is inserted
\* without error unless the store refuses an INSERT; its row has the
\* columns of the schema only, and holds every field of the record that
\* has a column of its own.
C30_UnknownFieldDropped ==
  (pc = "loaded" /\ main_ \in DOMAIN db) =>
    \A i \in DOMAIN log :
       (UnmarshalMap(input[i]).ok /\ Uncolumned(i) # {}) =>
          /\ nfail = 0 => log[i].res = "ok"
          /\ i \in Loaded =>
               /\ DOMAIN db[main_].rows[log[i].id].vals = DOMAIN dbs.Tables[main_].Fields
               /\ HoldsObject(main_, db[main_].rows[log[i].id], UnmarshalMap(input[i]).m)

C30_Witness ==
  /\ pc = "loaded"
  /\ Len(input) = Sample + 1
  /\ FieldOf(input[1], name_) = Al
  /\ input[Sample + 1] = JsonLine(Obj2(age_, JNum(5), ids_, JArr(<<>>)))
  /\ Uncolumned(Sample + 1) = {ids_}
  /\ log[Sample + 1] = [res |-> "ok", id |-> Sample + 1]
  /\ db[main_].rows[Sample + 1].vals[age_] = SqlReal(5)
====
